---------------------------- MODULE Spec2Model ----------------------------
(***************************************************************************)
(* Fire/smoke detection backend: the weather/context confidence adjuster   *)
(* (services/weather_context.py), the parallel batch detector, the frame   *)
(* sampler and the video pipeline (services/batch_video_processor.py).     *)
(*                                                                         *)
(* Confidences are Python floats in the source.  Here a confidence c is    *)
(* the integer c * ConfOne, so that every product by 0.5, 0.6, 0.8, 0.9    *)
(* and the comparison with 0.3 is computed exactly as a decimal.           *)
(* Strings whose case matters are sequences of ASCII codes, so             *)
(* that str.lower() is computed and not assumed.                           *)
(***************************************************************************)
EXTENDS Integers, Sequences, FiniteSets, TLC

VARIABLES
    OPENWEATHER_API_KEY,  \* weather_context.py:15, TRUE iff a key is configured
    ac,                   \* the last adjust_confidence call: arguments and outcome
    sd,                   \* the last smart_detection call: arguments and outcome
    gr,                   \* the last get_recommendation call: arguments and text
    images,               \* process_batch_images: the input sequence
    max_workers,          \* process_batch_images: size of the pool
    future,               \* per input: "unsubmitted" | "pending" | "running" | "done"
    response,             \* per input: what decoding and the inference API answered
    posts,                \* per input: the requests sent to the inference API
    outcome,              \* per input: the value its future holds
    collected,            \* the futures as_completed has yielded, in that order
    results,              \* process_batch_images: the result list
    bpc,                  \* process_batch_images: position of the coordinating thread
    video,                \* process_video_detection: the source and its arguments
    extracted,            \* process_video_detection: what extract_video_frames gave
    vpc,                  \* process_video_detection: position
    vresult,              \* process_video_detection: the returned value
    ab,                   \* the last analyze_batch_results call: input and summary
    SENDGRID_API_KEY,     \* notifications.py:12, TRUE iff a key is configured
    TWILIO_ACCOUNT_SID,   \* notifications.py:16, TRUE iff configured
    TWILIO_AUTH_TOKEN,    \* notifications.py:17, TRUE iff configured
    ta,                   \* the last trigger_alerts call: arguments, sends and report
    rd                    \* the last /roboflow/detect request: inputs, sends and response

adjVars   == <<OPENWEATHER_API_KEY, ac, sd, gr>>
batchVars == <<images, max_workers, future, response, posts, outcome, collected, results, bpc>>
videoVars == <<video, extracted, vpc, vresult>>
analyzeVars == <<ab>>
alertVars == <<SENDGRID_API_KEY, TWILIO_ACCOUNT_SID, TWILIO_AUTH_TOKEN, ta, rd>>
vars      == <<adjVars, batchVars, videoVars, analyzeVars, alertVars>>

None == [none |-> TRUE]

(***************************************************************************)
(* Strings and str.lower()                                                 *)
(***************************************************************************)
\* str.lower() on ASCII: "A".."Z" (65..90) become "a".."z" (97..122)
LowerChar(c) == IF 65 <= c /\ c <= 90 THEN c + 32 ELSE c

Lower(s) == [i \in DOMAIN s |-> LowerChar(s[i])]

str_smoke    == <<115,109,111,107,101>>               \* "smoke"
str_fire     == <<102,105,114,101>>                   \* "fire"
str_kitchen  == <<107,105,116,99,104,101,110>>        \* "kitchen"
str_bathroom == <<98,97,116,104,114,111,111,109>>     \* "bathroom"
str_SMOKE    == <<83,77,79,75,69>>                    \* "SMOKE"
str_Fire     == <<70,105,114,101>>                    \* "Fire"
str_Unknown  == <<85,110,107,110,111,119,110>>        \* "Unknown"
str_Kitchen  == <<75,105,116,99,104,101,110>>         \* "Kitchen"
str_BATHROOM == <<66,65,84,72,82,79,79,77>>           \* "BATHROOM"
str_Bedroom  == <<66,101,100,114,111,111,109>>        \* "Bedroom"

(***************************************************************************)
(* Confidence arithmetic                                                   *)
(***************************************************************************)
ConfOne == 10^8                       \* the confidence 1.0
Times(c, tenths) == (c * tenths) \div 10   \* c * 0.<tenths>
Pct(p) == p * (ConfOne \div 100)      \* the confidence p/100

(***************************************************************************)
(* Inputs                                                                  *)
(***************************************************************************)
MaxPreds == 2          \* longest predictions sequence of an inference response

Classes  == { str_smoke, str_SMOKE, str_fire }
RawConfs == { Pct(0), Pct(30), Pct(31), Pct(50), Pct(90) }
Box      == <<320, 240, 64, 48>>

FirstPreds == [class : Classes, confidence : RawConfs, box : {Box}]
\* the second and later boxes of a response
LaterPreds == { [class |-> str_Fire,  confidence |-> Pct(90), box |-> Box],
                [class |-> str_smoke, confidence |-> Pct(31), box |-> Box] }

RECURSIVE Tails(_)
Tails(n) == IF n = 0 THEN { <<>> }
            ELSE Tails(n - 1) \cup { Append(t, p) : t \in Tails(n - 1), p \in LaterPreds }

PredictionLists ==
    { <<>> } \cup { <<p>> \o t : p \in FirstPreds, t \in Tails(MaxPreds - 1) }

Locations == { str_Unknown, str_Kitchen, str_BATHROOM, str_Bedroom }
Hours     == { 4, 5, 8, 9 }

Conditions == { "Clear", "Fog", "Mist", "Haze" }
\* the JSON body of a 200 response of the weather API; visibility may be missing
WeatherData == [condition : Conditions, temp : {9, 10}, humidity : {85, 86},
                visibility : {999, 1000}]
               \cup [condition : Conditions, temp : {9, 10}, humidity : {85, 86}]
HttpOutcomes == { [kind |-> "exception"], [kind |-> "status", code |-> 401] }
                \cup { [kind |-> "status", code |-> 200, data |-> d] : d \in WeatherData }

(***************************************************************************)
(* WeatherContext.get_weather                                              *)
(***************************************************************************)
get_weather(api_key, resp) ==
    IF ~api_key THEN None
    ELSE IF resp.kind = "exception" THEN None
    ELSE IF resp.code = 200
         THEN [condition   |-> resp.data.condition,
               temperature |-> resp.data.temp,
               humidity    |-> resp.data.humidity,
               visibility  |-> IF "visibility" \in DOMAIN resp.data
                               THEN resp.data.visibility ELSE 10000]
         ELSE None

\* what one call of get_weather can return, over the API's possible responses
FetchesWithKey    == { get_weather(TRUE, r) : r \in HttpOutcomes }
FetchesWithoutKey == { get_weather(FALSE, r) : r \in HttpOutcomes }
Fetches(api_key)  == IF api_key THEN FetchesWithKey ELSE FetchesWithoutKey

Weathers == FetchesWithKey \ { None }

(***************************************************************************)
(* WeatherContext.adjust_confidence.  `fetched` is what self.get_weather() *)
(* returns if the call makes it (only when the weather argument is None).  *)
(* The result is the returned pair, or the exception that escapes.         *)
(***************************************************************************)
\* a variant of the humidity rule that triggers at 85 too
HumidityRule_AtLeast(weather) == weather.humidity >= 85

FogRule(weather)         == weather.condition \in {"Fog", "Mist", "Haze"}
VisibilityRule(weather)  == weather.visibility < 1000
HumidityRule(weather)    == weather.humidity > 85
TemperatureRule(weather) == weather.temperature < 10

\* a variant that treats missing weather as the worst case
NoWeatherReturn_Penalised(confidence) ==
    [raised |-> FALSE, confidence |-> Times(confidence, 5),
     reason |-> [kind |-> "No weather context available", adjustments |-> <<>>]]

\* lines 76-78: no weather data, return original confidence
NoWeatherReturn(confidence) ==
    [raised |-> FALSE, confidence |-> confidence,
     reason |-> [kind |-> "No weather context available", adjustments |-> <<>>]]

\* a variant without the class test of line 84
WeatherChain_AnyClass(detected_class, confidence, weather) ==
    LET c1 == IF FogRule(weather) THEN Times(confidence, 5) ELSE confidence
        c2 == IF VisibilityRule(weather) THEN Times(c1, 6) ELSE c1
        c3 == IF HumidityRule(weather) THEN Times(c2, 8) ELSE c2
        c4 == IF TemperatureRule(weather) THEN Times(c3, 9) ELSE c3
    IN  [confidence |-> c4,
         adjustments |-> IF c4 = confidence THEN <<>> ELSE <<"adjusted">>]

\* lines 80-104: the penalty chain, the confidence and the adjustments it leaves
WeatherChain(detected_class, confidence, weather) ==
    IF Lower(detected_class) = str_smoke
    THEN LET c1 == IF FogRule(weather) THEN Times(confidence, 5) ELSE confidence
             a1 == IF FogRule(weather) THEN <<"Foggy conditions">> ELSE <<>>
             c2 == IF VisibilityRule(weather) THEN Times(c1, 6) ELSE c1
             a2 == IF VisibilityRule(weather) THEN Append(a1, "Low visibility") ELSE a1
             c3 == IF HumidityRule(weather) THEN Times(c2, 8) ELSE c2
             a3 == IF HumidityRule(weather) THEN Append(a2, "High humidity") ELSE a2
             c4 == IF TemperatureRule(weather) THEN Times(c3, 9) ELSE c3
             a4 == IF TemperatureRule(weather)
                   THEN Append(a3, "Cold temperature") ELSE a3
         IN  [confidence |-> c4, adjustments |-> a4]
    ELSE [confidence |-> confidence, adjustments |-> <<>>]

\* lines 106-114: the reason string and the returned pair; the percentage of
\* line 109 divides by the original confidence
BuildReason(original_confidence, chain) ==
    IF chain.adjustments # <<>>
    THEN IF original_confidence = 0
         THEN [raised |-> TRUE, error |-> "ZeroDivisionError"]
         ELSE [raised |-> FALSE, confidence |-> chain.confidence,
               reason |-> [kind |-> "Weather context",
                           adjustments |-> chain.adjustments]]
    ELSE [raised |-> FALSE, confidence |-> chain.confidence,
          reason |-> [kind |-> "Clear weather", adjustments |-> <<>>]]

adjust_confidence(detected_class, confidence, weather_arg, fetched) ==
    LET weather == IF weather_arg = None THEN fetched ELSE weather_arg
    IN  [weather |-> weather] @@
        (IF weather = None
         THEN NoWeatherReturn(confidence)
         ELSE BuildReason(confidence, WeatherChain(detected_class, confidence, weather)))

(***************************************************************************)
(* get_recommendation: the tier of the text it returns                     *)
(***************************************************************************)
\* a variant whose second tier starts at 0.7 x original itself
get_recommendation_AtMost(detected_class, original_conf, adjusted_conf, should_alert) ==
    IF ~should_alert
    THEN IF Lower(detected_class) = str_smoke
         THEN "Smoke detected but confidence reduced"
         ELSE "Low confidence detection"
    ELSE IF adjusted_conf <= Times(original_conf, 7)
         THEN "Confidence reduced by weather context but still concerning"
         ELSE "High confidence detection"

\* lines 207-230
get_recommendation(detected_class, original_conf, adjusted_conf, should_alert) ==
    IF ~should_alert
    THEN IF Lower(detected_class) = str_smoke
         THEN "Smoke detected but confidence reduced"
         ELSE "Low confidence detection"
    ELSE IF adjusted_conf < Times(original_conf, 7)
         THEN "Confidence reduced by weather context but still concerning"
         ELSE "High confidence detection"

(***************************************************************************)
(* The basic result the single-image route builds from an inference        *)
(* response (app.py) and hands to smart_detection                          *)
(***************************************************************************)
HasClass(predictions, cls) ==
    \E i \in DOMAIN predictions : Lower(predictions[i].class) = cls

MaxConfidence(predictions) ==
    IF predictions = <<>> THEN 0
    ELSE CHOOSE m \in { predictions[i].confidence : i \in DOMAIN predictions } :
             \A i \in DOMAIN predictions : predictions[i].confidence <= m

basic_result(predictions) ==
    [provider       |-> "roboflow",
     predictions    |-> predictions,
     count          |-> Len(predictions),
     has_fire       |-> HasClass(predictions, str_fire),
     has_smoke      |-> HasClass(predictions, str_smoke),
     max_confidence |-> MaxConfidence(predictions)]

BasicResults == { basic_result(p) : p \in PredictionLists }

(***************************************************************************)
(* smart_detection.  `weather` is what its own get_weather() call returned *)
(* (line 130), `adj` the outcome of its adjust_confidence call (line 154). *)
(***************************************************************************)
TimeRule(hour) == 5 <= hour /\ hour <= 8

LocationRule(location) == Lower(location) \in {str_kitchen, str_bathroom}

\* a variant with a non-strict threshold
ShouldAlert_Ge(adjusted_confidence) == adjusted_confidence >= Pct(30)

\* line 174
ShouldAlert(adjusted_confidence) == adjusted_confidence > Pct(30)

\* lines 160-171: the time-of-day and the location layers
TimeLayer(detected_class, confidence, hour) ==
    IF Lower(detected_class) = str_smoke /\ TimeRule(hour)
    THEN [confidence |-> Times(confidence, 8), reason |-> "Early morning (fog common)"]
    ELSE [confidence |-> confidence, reason |-> ""]

\* a variant that matches the location without lower()
LocationLayer_CaseSensitive(detected_class, confidence, location) ==
    IF Lower(detected_class) = str_smoke /\ location \in {str_kitchen, str_bathroom}
    THEN [confidence |-> Times(confidence, 6), reason |-> "Location (steam expected)"]
    ELSE [confidence |-> confidence, reason |-> ""]

LocationLayer(detected_class, confidence, location) ==
    IF Lower(detected_class) = str_smoke /\ LocationRule(location)
    THEN [confidence |-> Times(confidence, 6), reason |-> "Location (steam expected)"]
    ELSE [confidence |-> confidence, reason |-> ""]

\* lines 177-202: the enhanced result
EnhancedResult(image_result, prediction, adjusted_confidence, should_alert, context) ==
    [predictions |-> << [original_confidence |-> prediction.confidence,
                         adjusted_confidence |-> adjusted_confidence,
                         confidence_change   |-> adjusted_confidence
                                                 - prediction.confidence]
                        @@ prediction >>,
     alert          |-> should_alert,
     context        |-> context,
     recommendation |-> get_recommendation(prediction.class, prediction.confidence,
                                           adjusted_confidence, should_alert)]
    @@ image_result

\* a variant that works on the most confident prediction of the result
FirstPrediction_MostConfident(image_result) ==
    LET ps == image_result.predictions
    IN  ps[CHOOSE i \in DOMAIN ps : \A j \in DOMAIN ps :
                  \/ ps[j].confidence < ps[i].confidence
                  \/ ps[j].confidence = ps[i].confidence /\ i <= j]

\* line 149: prediction = image_result['predictions'][0]
FirstPrediction(image_result) == image_result.predictions[1]

smart_detection(image_result, location, hour, weather, adj) ==
    IF image_result.count = 0
    THEN [raised |-> FALSE,
          value  |-> [context |-> [weather |-> weather, time |-> hour,
                                   location |-> location,
                                   adjustments |-> "No detection"]]
                     @@ image_result]
    ELSE
    LET prediction == FirstPrediction(image_result)
        detected_class == prediction.class
    IN  IF adj.raised
        THEN [raised |-> TRUE, error |-> adj.error]
        ELSE
        LET t == TimeLayer(detected_class, adj.confidence, hour)
            l == LocationLayer(detected_class, t.confidence, location)
        IN  [raised |-> FALSE,
             value  |-> EnhancedResult(image_result, prediction, l.confidence,
                            ShouldAlert(l.confidence),
                            [weather |-> weather, time |-> hour, location |-> location,
                             adjustments |-> [weather  |-> adj.reason,
                                              time     |-> t.reason,
                                              location |-> l.reason]])]

(***************************************************************************)
(* The adjuster's operations                                               *)
(***************************************************************************)
Idle == [status |-> "idle"]

AcFrame(detected_class, confidence, weather_arg, out) ==
    [status         |-> IF out.raised THEN "raised" ELSE "returned",
     detected_class |-> detected_class,
     confidence     |-> confidence,
     weather_arg    |-> weather_arg,
     out            |-> out]

\* a direct call of WeatherContext.adjust_confidence
CallAdjustConfidence ==
    /\ ac = Idle /\ sd = Idle
    /\ \E detected_class \in Classes, confidence \in RawConfs,
          weather_arg \in Weathers \cup {None} :
          \E fetched \in (IF weather_arg = None THEN Fetches(OPENWEATHER_API_KEY)
                          ELSE {None}) :
             ac' = AcFrame(detected_class, confidence, weather_arg,
                       adjust_confidence(detected_class, confidence, weather_arg,
                                         fetched))
    /\ UNCHANGED <<OPENWEATHER_API_KEY, sd, gr>>

\* a call of smart_detection
CallSmartDetection ==
    /\ ac = Idle /\ sd = Idle
    /\ \E image_result \in BasicResults, location \in Locations, hour \in Hours,
          weather \in Fetches(OPENWEATHER_API_KEY) :
          LET predictions == image_result.predictions
          IN  \E fetched \in (IF weather = None /\ image_result.count > 0
                              THEN Fetches(OPENWEATHER_API_KEY) ELSE {None}) :
              LET adj == IF image_result.count = 0 THEN None
                         ELSE adjust_confidence(predictions[1].class,
                                  predictions[1].confidence, weather, fetched)
                  out == smart_detection(image_result, location, hour, weather, adj)
              IN  /\ sd' = [status       |-> IF out.raised THEN "raised" ELSE "returned",
                            image_result |-> image_result,
                            location     |-> location,
                            hour         |-> hour,
                            weather      |-> weather,
                            out          |-> out]
                  /\ ac' = IF image_result.count = 0 THEN ac
                           ELSE AcFrame(predictions[1].class, predictions[1].confidence,
                                        weather, adj)
    /\ UNCHANGED <<OPENWEATHER_API_KEY, gr>>

AdjInit == /\ OPENWEATHER_API_KEY \in BOOLEAN
           /\ ac = Idle
           /\ sd = Idle
           /\ gr = Idle

BatchIdle == /\ images = <<>>
             /\ max_workers = 0
             /\ future = <<>>
             /\ response = <<>>
             /\ posts = <<>>
             /\ outcome = <<>>
             /\ collected = <<>>
             /\ results = <<>>
             /\ bpc = "idle"

VideoIdle == /\ video = None
             /\ extracted = None
             /\ vpc = "idle"
             /\ vresult = None

AnalyzeIdle == ab = Idle

AlertIdle == /\ SENDGRID_API_KEY = FALSE
             /\ TWILIO_ACCOUNT_SID = FALSE
             /\ TWILIO_AUTH_TOKEN = FALSE
             /\ ta = Idle
             /\ rd = Idle

InitAdjust == AdjInit /\ BatchIdle /\ VideoIdle /\ AnalyzeIdle /\ AlertIdle

NextAdjust ==
    \/ CallAdjustConfidence /\ UNCHANGED <<batchVars, videoVars, analyzeVars, alertVars>>
    \/ CallSmartDetection /\ UNCHANGED <<batchVars, videoVars, analyzeVars, alertVars>>

SpecAdjust == InitAdjust /\ [][NextAdjust]_vars

(***************************************************************************)
(* get_recommendation as a function of its arguments.  The adjusted        *)
(* confidence is a tenth-multiple of the original one, 0.7 x original      *)
(* included.                                                               *)
(***************************************************************************)
CallGetRecommendation ==
    /\ gr = Idle
    /\ \E detected_class \in Classes, original_conf \in RawConfs,
          tenths \in 0..10, should_alert \in BOOLEAN :
          LET adjusted_conf == Times(original_conf, tenths)
          IN  gr' = [status         |-> "returned",
                     detected_class |-> detected_class,
                     original_conf  |-> original_conf,
                     adjusted_conf  |-> adjusted_conf,
                     should_alert   |-> should_alert,
                     out            |-> get_recommendation(detected_class, original_conf,
                                                           adjusted_conf, should_alert)]
    /\ UNCHANGED <<OPENWEATHER_API_KEY, ac, sd>>

InitRecommend == AdjInit /\ BatchIdle /\ VideoIdle /\ AnalyzeIdle /\ AlertIdle

NextRecommend ==
    CallGetRecommendation /\ UNCHANGED <<batchVars, videoVars, analyzeVars, alertVars>>

SpecRecommend == InitRecommend /\ [][NextRecommend]_vars

(***************************************************************************)
(* process_batch_images (batch_video_processor.py)                         *)
(***************************************************************************)
MaxImages  == 3        \* longest input sequence of a direct batch call
MaxWorkers == 2        \* largest max_workers of a direct batch call
DefaultMaxWorkers == 5

\* what can happen to one item: the image does not decode, the POST times
\* out, or the inference API answers with a status code and a JSON body
Events ==
    { [kind |-> "decode_error"], [kind |-> "timeout"],
      [kind |-> "http", code |-> 500],
      [kind |-> "http", code |-> 200, predictions |-> <<>>],
      [kind |-> "http", code |-> 200,
       predictions |-> << [class |-> str_Fire,  confidence |-> Pct(90), box |-> Box],
                          [class |-> str_smoke, confidence |-> Pct(50), box |-> Box] >>] }

\* a variant without the status test of line 147
process_single_image_AnyStatus(image, index, event) ==
    IF event.kind = "decode_error"
    THEN [index |-> index, success |-> FALSE, error |-> [message |-> "cannot identify image file"]]
    ELSE IF event.kind = "timeout"
    THEN [index |-> index, success |-> FALSE, error |-> [message |-> "Read timed out"]]
    ELSE LET predictions == IF "predictions" \in DOMAIN event
                            THEN event.predictions ELSE <<>>
         IN  [index          |-> index,
              success        |-> TRUE,
              predictions    |-> predictions,
              count          |-> Len(predictions),
              has_fire       |-> HasClass(predictions, str_fire),
              has_smoke      |-> HasClass(predictions, str_smoke),
              max_confidence |-> MaxConfidence(predictions)]

\* lines 104-176
process_single_image(image, index, event) ==
    IF event.kind = "decode_error"
    THEN [index |-> index, success |-> FALSE, error |-> [message |-> "cannot identify image file"]]
    ELSE IF event.kind = "timeout"
    THEN [index |-> index, success |-> FALSE, error |-> [message |-> "Read timed out"]]
    ELSE IF event.code = 200
    THEN [index          |-> index,
          success        |-> TRUE,
          predictions    |-> event.predictions,
          count          |-> Len(event.predictions),
          has_fire       |-> HasClass(event.predictions, str_fire),
          has_smoke      |-> HasClass(event.predictions, str_smoke),
          max_confidence |-> MaxConfidence(event.predictions)]
    ELSE [index |-> index, success |-> FALSE, error |-> [message |-> "API error", status_code |-> event.code]]

\* a variant of the sort that leaves the list in completion order
SortByIndex_Unsorted(rs) == rs

\* line 208: results.sort(key=lambda x: x['index']), a stable sort
RECURSIVE InsertByIndex(_, _)
InsertByIndex(sorted, r) ==
    IF sorted = <<>> THEN <<r>>
    ELSE IF sorted[Len(sorted)].index <= r.index THEN Append(sorted, r)
    ELSE Append(InsertByIndex(SubSeq(sorted, 1, Len(sorted) - 1), r),
                sorted[Len(sorted)])

RECURSIVE SortPrefix(_, _)
SortPrefix(rs, n) ==
    IF n = 0 THEN <<>> ELSE InsertByIndex(SortPrefix(rs, n - 1), rs[n])

SortByIndex(rs) == SortPrefix(rs, Len(rs))

Indices(status) == { i \in DOMAIN future : future[i] = status }
Min(S) == CHOOSE m \in S : \A x \in S : m <= x
Range(f) == { f[i] : i \in DOMAIN f }

\* lines 102, 179-186: entry of process_batch_images
EnterBatch(imgs, workers) ==
    /\ images' = imgs
    /\ max_workers' = workers
    /\ future' = [i \in DOMAIN imgs |-> "unsubmitted"]
    /\ response' = [i \in DOMAIN imgs |-> None]
    /\ posts' = [i \in DOMAIN imgs |-> 0]
    /\ outcome' = [i \in DOMAIN imgs |-> None]
    /\ collected' = <<>>
    /\ results' = <<>>
    /\ bpc' = "submit"

\* a direct call, as the batch route makes it
CallProcessBatchImages ==
    /\ bpc = "idle" /\ vpc = "idle"
    /\ \E n \in 0..MaxImages, workers \in 1..MaxWorkers :
          EnterBatch([i \in 1..n |-> [kind |-> "base64"]], workers)
    /\ UNCHANGED videoVars

\* lines 183-186: executor.submit of the next item, in input order
Submit ==
    /\ bpc = "submit"
    /\ Indices("unsubmitted") # {}
    /\ future' = [future EXCEPT ![Min(Indices("unsubmitted"))] = "pending"]
    /\ UNCHANGED <<images, max_workers, response, posts, outcome, collected, results, bpc>>

\* line 193: all items are submitted, the coordinating thread enters as_completed
EnterCollect ==
    /\ bpc = "submit"
    /\ Indices("unsubmitted") = {}
    /\ bpc' = "collect"
    /\ UNCHANGED <<images, max_workers, future, response, posts, outcome, collected, results>>

\* a variant of the pool that starts a thread for every queued item
PoolHasIdleThread_Unbounded == TRUE

\* line 181: ThreadPoolExecutor(max_workers=max_workers) has max_workers
\* threads, and a thread runs one item at a time
PoolHasIdleThread == Cardinality(Indices("running")) < max_workers

\* a pool thread takes the oldest queued item
WorkerStart ==
    /\ Indices("pending") # {}
    /\ PoolHasIdleThread
    /\ future' = [future EXCEPT ![Min(Indices("pending"))] = "running"]
    /\ UNCHANGED <<images, max_workers, response, posts, outcome, collected, results, bpc>>

\* lines 140-145: the one requests.post of process_single_image; an image
\* that does not decode raises before it
Posted(event) == IF event.kind = "decode_error" THEN 0 ELSE 1

\* a variant of the pool that queues a failed item again
FutureAfter_Retry(result) == IF result.success THEN "done" ELSE "pending"

\* lines 171-176, 184: process_single_image returns a result for every
\* failure, the future of the item is then finished, and nothing submits
\* the item again
FutureAfter(result) == "done"

\* a pool thread finishes process_single_image and sets its future's result
WorkerFinish ==
    \E i \in Indices("running"), event \in Events :
        LET result == process_single_image(images[i], i - 1, event)
        IN  /\ response' = [response EXCEPT ![i] = event]
            /\ posts' = [posts EXCEPT ![i] = @ + Posted(event)]
            /\ outcome' = [outcome EXCEPT ![i] = result]
            /\ future' = [future EXCEPT ![i] = FutureAfter(result)]
            /\ UNCHANGED <<images, max_workers, collected, results, bpc>>

\* lines 193-195: as_completed yields a finished future, its result is appended
Collect ==
    /\ bpc = "collect"
    /\ \E i \in Indices("done") \ Range(collected) :
          /\ results' = Append(results, outcome[i])
          /\ collected' = Append(collected, i)
    /\ UNCHANGED <<images, max_workers, future, response, posts, outcome, bpc>>

\* a variant of the collecting loop that may stop before every future is in
AllCompleted_Any == TRUE

\* lines 193-195: as_completed(futures) ends when it has yielded every future;
\* nothing cancels a future
AllCompleted == Range(collected) = DOMAIN images

\* lines 206-218: the pool is left, the results are sorted and returned
SortAndReturn ==
    /\ bpc = "collect"
    /\ AllCompleted
    /\ results' = SortByIndex(results)
    /\ bpc' = "done"
    /\ UNCHANGED <<images, max_workers, future, response, posts, outcome, collected>>

(***************************************************************************)
(* analyze_batch_results.  A rate is the exact fraction num/den of the     *)
(* float the code computes.                                                *)
(***************************************************************************)
Get(r, key, default) == IF key \in DOMAIN r THEN r[key] ELSE default

RECURSIVE SumCounts(_, _)
SumCounts(rs, n) ==
    IF n = 0 THEN 0
    ELSE SumCounts(rs, n - 1) + (IF rs[n].success THEN Get(rs[n], "count", 0) ELSE 0)

Rate(part, whole) == IF whole > 0 THEN [num |-> part * 100, den |-> whole]
                     ELSE [num |-> 0, den |-> 1]

\* a variant that takes a result without flags for a detection
analyze_batch_results_DefaultTrue(rs) ==
    LET total          == Len(rs)
        successful     == Cardinality({ i \in DOMAIN rs : rs[i].success })
        fire_detected  == Cardinality({ i \in DOMAIN rs : Get(rs[i], "has_fire", TRUE) })
        smoke_detected == Cardinality({ i \in DOMAIN rs : Get(rs[i], "has_smoke", TRUE) })
    IN  [total_images         |-> total,
         successful           |-> successful,
         failed               |-> total - successful,
         fire_detected_count  |-> fire_detected,
         smoke_detected_count |-> smoke_detected,
         total_detections     |-> SumCounts(rs, Len(rs)),
         success_rate         |-> Rate(successful, total),
         fire_rate            |-> Rate(fire_detected, successful),
         smoke_rate           |-> Rate(smoke_detected, successful)]

\* a variant that takes the fire and smoke rates over the total
analyze_batch_results_OverTotal(rs) ==
    LET total          == Len(rs)
        successful     == Cardinality({ i \in DOMAIN rs : rs[i].success })
        fire_detected  == Cardinality({ i \in DOMAIN rs : Get(rs[i], "has_fire", FALSE) })
        smoke_detected == Cardinality({ i \in DOMAIN rs : Get(rs[i], "has_smoke", FALSE) })
    IN  [total_images         |-> total,
         successful           |-> successful,
         failed               |-> total - successful,
         fire_detected_count  |-> fire_detected,
         smoke_detected_count |-> smoke_detected,
         total_detections     |-> SumCounts(rs, Len(rs)),
         success_rate         |-> Rate(successful, total),
         fire_rate            |-> Rate(fire_detected, total),
         smoke_rate           |-> Rate(smoke_detected, total)]

\* lines 230-251
analyze_batch_results(rs) ==
    LET total          == Len(rs)
        successful     == Cardinality({ i \in DOMAIN rs : rs[i].success })
        fire_detected  == Cardinality({ i \in DOMAIN rs : Get(rs[i], "has_fire", FALSE) })
        smoke_detected == Cardinality({ i \in DOMAIN rs : Get(rs[i], "has_smoke", FALSE) })
    IN  [total_images         |-> total,
         successful           |-> successful,
         failed               |-> total - successful,
         fire_detected_count  |-> fire_detected,
         smoke_detected_count |-> smoke_detected,
         total_detections     |-> SumCounts(rs, Len(rs)),
         success_rate         |-> Rate(successful, total),
         fire_rate            |-> Rate(fire_detected, successful),
         smoke_rate           |-> Rate(smoke_detected, successful)]

(***************************************************************************)
(* extract_video_frames.  A source either cannot be opened, or has a frame *)
(* rate (video_fps2 is twice CAP_PROP_FPS, so that 1.5 fps is a source)    *)
(* and stream_len frames that cap.read() decodes.  A kept frame is the     *)
(* position it had in the source.                                          *)
(***************************************************************************)
MaxStream == 3          \* longest source stream, in frames
MaxFrames == 2          \* largest max_frames argument

Videos == { [opens |-> FALSE] }
          \cup [opens : {TRUE}, video_fps2 : {0, 2, 3, 4, 6}, stream_len : 0..MaxStream]
TargetFps == { 0, 1, 2, 3 }

\* line 52: int(video_fps / fps) if fps > 0 else 1
FrameInterval(video_fps2, fps) ==
    IF fps > 0 THEN video_fps2 \div (2 * fps) ELSE 1

\* a variant of the read loop without the max_frames test of line 57
RECURSIVE ReadLoop_NoCap(_, _, _, _, _)
ReadLoop_NoCap(stream_len, frame_interval, max_frames, frame_count, kept) ==
    IF frame_count >= stream_len
    THEN [raised |-> FALSE, value |-> kept, reads |-> frame_count]
    ELSE IF frame_interval = 0
    THEN [raised |-> TRUE, error |-> "ZeroDivisionError", reads |-> frame_count + 1]
    ELSE ReadLoop_NoCap(stream_len, frame_interval, max_frames, frame_count + 1,
                        IF frame_count % frame_interval = 0
                        THEN Append(kept, [kind |-> "frame", position |-> frame_count])
                        ELSE kept)

\* lines 57-73: the read loop; the result is the list kept, or the exception
\* of the modulo at line 64, and `reads` counts the frames cap.read() decoded
RECURSIVE ReadLoop(_, _, _, _, _)
ReadLoop(stream_len, frame_interval, max_frames, frame_count, kept) ==
    IF ~(Len(kept) < max_frames)
    THEN [raised |-> FALSE, value |-> kept, reads |-> frame_count]
    ELSE IF frame_count >= stream_len
    THEN [raised |-> FALSE, value |-> kept, reads |-> frame_count]
    ELSE IF frame_interval = 0
    THEN [raised |-> TRUE, error |-> "ZeroDivisionError", reads |-> frame_count + 1]
    ELSE ReadLoop(stream_len, frame_interval, max_frames, frame_count + 1,
                  IF frame_count % frame_interval = 0
                  THEN Append(kept, [kind |-> "frame", position |-> frame_count])
                  ELSE kept)

\* lines 30-86: every exception, the open failure of line 42 included, is
\* caught at line 84 and an empty list is returned
extract_video_frames(source, fps, max_frames) ==
    LET body == IF ~source.opens
                THEN [raised |-> TRUE, error |-> "Could not open video file",
                      reads |-> 0]
                ELSE ReadLoop(source.stream_len,
                              FrameInterval(source.video_fps2, fps),
                              max_frames, 0, <<>>)
    IN  IF body.raised THEN [raised |-> FALSE, value |-> <<>>, reads |-> body.reads]
        ELSE body

(***************************************************************************)
(* process_video_detection                                                 *)
(***************************************************************************)
\* line 291: f"{i * (1/fps):.1f}s", in tenths of a second: the format rounds
\* i/fps to one decimal, an exact tie to the even digit
Timestamp(i, fps) ==
    LET q == (10 * i) \div fps
        r == (10 * i) % fps
    IN  IF 2 * r < fps THEN q
        ELSE IF 2 * r > fps THEN q + 1
        ELSE IF q % 2 = 0 THEN q ELSE q + 1

\* a variant that attaches the frame image to every entry
FrameData_AlwaysImage(i, result, fps) ==
    [image_base64    |-> extracted.value[i + 1],
     frame           |-> i + 1,
     timestamp       |-> Timestamp(i, fps),
     has_fire        |-> Get(result, "has_fire", FALSE),
     has_smoke       |-> Get(result, "has_smoke", FALSE),
     detection_count |-> Get(result, "count", 0),
     predictions     |-> Get(result, "predictions", <<>>)]

\* lines 289-306
FrameData(i, result, fps) ==
    LET frame_data == [frame           |-> i + 1,
                       timestamp       |-> Timestamp(i, fps),
                       has_fire        |-> Get(result, "has_fire", FALSE),
                       has_smoke       |-> Get(result, "has_smoke", FALSE),
                       detection_count |-> Get(result, "count", 0),
                       predictions     |-> Get(result, "predictions", <<>>)]
    IN  IF Get(result, "count", 0) > 0 /\ i < Len(extracted.value)
        THEN [image_base64 |-> extracted.value[i + 1]] @@ frame_data
        ELSE frame_data

\* a variant that numbers an entry by its place in the timeline
RECURSIVE Timeline_Renumbered(_, _, _)
Timeline_Renumbered(rs, n, fps) ==
    IF n = 0 THEN <<>>
    ELSE IF rs[n].success
         THEN LET before == Timeline_Renumbered(rs, n - 1, fps)
              IN  Append(before, FrameData(Len(before), rs[n], fps))
         ELSE Timeline_Renumbered(rs, n - 1, fps)

\* lines 286-306: enumerate(results), failed results are skipped
RECURSIVE Timeline(_, _, _)
Timeline(rs, n, fps) ==
    IF n = 0 THEN <<>>
    ELSE IF rs[n].success
         THEN Append(Timeline(rs, n - 1, fps), FrameData(n - 1, rs[n], fps))
         ELSE Timeline(rs, n - 1, fps)

\* a variant that never takes the early return of line 273
NoFrames_Never(fs) == FALSE

\* line 273: if not frames
NoFrames(fs) == fs = <<>>

\* lines 268-280: the frames are extracted; with none the call returns at
\* line 274, otherwise process_batch_images is entered with its default pool
CallProcessVideoDetection ==
    /\ vpc = "idle" /\ bpc = "idle"
    /\ \E source \in Videos, fps \in TargetFps, max_frames \in 0..MaxFrames :
          LET got == extract_video_frames(source, fps, max_frames)
          IN  /\ video' = [source |-> source, fps |-> fps, max_frames |-> max_frames]
              /\ extracted' = got
              /\ IF NoFrames(got.value)
                 THEN /\ vresult' = [success |-> FALSE,
                                     error |-> "Could not extract frames from video"]
                      /\ vpc' = "done"
                      /\ UNCHANGED batchVars
                 ELSE /\ EnterBatch(got.value, DefaultMaxWorkers)
                      /\ vpc' = "batch"
                      /\ UNCHANGED vresult

\* lines 282-314: the batch has returned; the summary and the timeline are
\* built.  1/fps at line 291 raises when fps is 0 and a frame succeeded.
ReturnProcessVideoDetection ==
    /\ vpc = "batch" /\ bpc = "done"
    /\ vresult' =
          IF video.fps = 0 /\ \E i \in DOMAIN results : results[i].success
          THEN [raised |-> TRUE, error |-> "ZeroDivisionError"]
          ELSE [success          |-> TRUE,
                frames_analyzed  |-> Len(extracted.value),
                summary          |-> analyze_batch_results(results),
                timeline         |-> Timeline(results, Len(results), video.fps),
                detailed_results |-> results]
    /\ vpc' = "done"
    /\ UNCHANGED <<video, extracted, batchVars>>

AdjIdle == /\ OPENWEATHER_API_KEY = FALSE
           /\ ac = Idle
           /\ sd = Idle
           /\ gr = Idle

InitPipeline == AdjIdle /\ BatchIdle /\ VideoIdle /\ AnalyzeIdle /\ AlertIdle

NextPipeline ==
    \/ CallProcessBatchImages /\ UNCHANGED <<adjVars, analyzeVars, alertVars>>
    \/ Submit /\ UNCHANGED <<adjVars, videoVars, analyzeVars, alertVars>>
    \/ EnterCollect /\ UNCHANGED <<adjVars, videoVars, analyzeVars, alertVars>>
    \/ WorkerStart /\ UNCHANGED <<adjVars, videoVars, analyzeVars, alertVars>>
    \/ WorkerFinish /\ UNCHANGED <<adjVars, videoVars, analyzeVars, alertVars>>
    \/ Collect /\ UNCHANGED <<adjVars, videoVars, analyzeVars, alertVars>>
    \/ SortAndReturn /\ UNCHANGED <<adjVars, videoVars, analyzeVars, alertVars>>
    \/ CallProcessVideoDetection /\ UNCHANGED <<adjVars, analyzeVars, alertVars>>
    \/ ReturnProcessVideoDetection /\ UNCHANGED <<adjVars, analyzeVars, alertVars>>

SpecPipeline == InitPipeline /\ [][NextPipeline]_vars

\* The coordinating thread and the pool threads keep running, and every call
\* of process_single_image ends: requests.post returns or times out (line 144)
SpecPipelineFair ==
    /\ SpecPipeline
    /\ WF_vars(Submit /\ UNCHANGED <<adjVars, videoVars, analyzeVars, alertVars>>)
    /\ WF_vars(EnterCollect /\ UNCHANGED <<adjVars, videoVars, analyzeVars, alertVars>>)
    /\ WF_vars(WorkerStart /\ UNCHANGED <<adjVars, videoVars, analyzeVars, alertVars>>)
    /\ WF_vars(WorkerFinish /\ UNCHANGED <<adjVars, videoVars, analyzeVars, alertVars>>)
    /\ WF_vars(Collect /\ UNCHANGED <<adjVars, videoVars, analyzeVars, alertVars>>)
    /\ WF_vars(SortAndReturn /\ UNCHANGED <<adjVars, videoVars, analyzeVars, alertVars>>)

(***************************************************************************)
(* analyze_batch_results as a function of its argument.  The argument is a *)
(* result list as process_single_image builds its items: n_fire items with *)
(* fire only, n_smoke with smoke only, n_both with both, n_clean with no   *)
(* prediction and n_failed failed items.                                   *)
(***************************************************************************)
MaxFire   == 3         \* most items with a fire prediction only
MaxSmoke  == 2         \* most items with a smoke prediction only
MaxBoth   == 1         \* most items with a fire and a smoke prediction
MaxClean  == 3         \* most successful items without a prediction
MaxFailed == 2         \* most failed items

FireOnly  == [kind |-> "http", code |-> 200,
              predictions |-> << [class |-> str_Fire, confidence |-> Pct(90), box |-> Box] >>]
SmokeOnly == [kind |-> "http", code |-> 200,
              predictions |-> << [class |-> str_smoke, confidence |-> Pct(50), box |-> Box] >>]
FireAndSmoke == [kind |-> "http", code |-> 200,
                 predictions |-> << [class |-> str_Fire,  confidence |-> Pct(90), box |-> Box],
                                    [class |-> str_smoke, confidence |-> Pct(50), box |-> Box] >>]
NoPrediction == [kind |-> "http", code |-> 200, predictions |-> <<>>]
TimedOut     == [kind |-> "timeout"]

BatchResultList(n_fire, n_smoke, n_both, n_clean, n_failed) ==
    [i \in 1..(n_fire + n_smoke + n_both + n_clean + n_failed) |->
        process_single_image([kind |-> "base64"], i - 1,
            IF i <= n_fire THEN FireOnly
            ELSE IF i <= n_fire + n_smoke THEN SmokeOnly
            ELSE IF i <= n_fire + n_smoke + n_both THEN FireAndSmoke
            ELSE IF i <= n_fire + n_smoke + n_both + n_clean THEN NoPrediction
            ELSE TimedOut)]

\* a call of analyze_batch_results
CallAnalyzeBatchResults ==
    /\ ab = Idle
    /\ \E n_fire \in 0..MaxFire, n_smoke \in 0..MaxSmoke, n_both \in 0..MaxBoth,
          n_clean \in 0..MaxClean, n_failed \in 0..MaxFailed :
          LET rs == BatchResultList(n_fire, n_smoke, n_both, n_clean, n_failed)
          IN  ab' = [status   |-> "returned",
                     n_fire   |-> n_fire,
                     n_smoke  |-> n_smoke,
                     n_both   |-> n_both,
                     n_clean  |-> n_clean,
                     n_failed |-> n_failed,
                     results  |-> rs,
                     out      |-> analyze_batch_results(rs)]

InitAnalyze == AdjIdle /\ BatchIdle /\ VideoIdle /\ AnalyzeIdle /\ AlertIdle

NextAnalyze ==
    CallAnalyzeBatchResults /\ UNCHANGED <<adjVars, batchVars, videoVars, alertVars>>

SpecAnalyze == InitAnalyze /\ [][NextAnalyze]_vars

(***************************************************************************)
(* notifications.py: the three senders.  `event` is what the network or    *)
(* the provider does with the one request the sender makes.                *)
(***************************************************************************)
WebhookEvents == { [kind |-> "timeout"], [kind |-> "exception"],
                   [kind |-> "status", code |-> 200],
                   [kind |-> "status", code |-> 500] }
EmailEvents   == { [kind |-> "exception"],
                   [kind |-> "status", code |-> 202],
                   [kind |-> "status", code |-> 401] }
SmsEvents     == { [kind |-> "import_error"], [kind |-> "exception"],
                   [kind |-> "created"] }
NoRequest     == [kind |-> "no_request"]      \* the sender is not called

\* lines 20-55: every exception of the POST is caught
send_webhook(url, data, event) ==
    IF event.kind = "timeout"
    THEN [success |-> FALSE, error |-> "Webhook request timed out"]
    ELSE IF event.kind = "exception"
    THEN [success |-> FALSE, error |-> "Connection refused"]
    ELSE [success |-> event.code \in {200, 201, 202, 204}, status_code |-> event.code]

\* lines 57-170
send_email_alert(to_email, subject, detection_data, event) ==
    IF ~SENDGRID_API_KEY
    THEN [success |-> FALSE, error |-> "SendGrid API key not configured"]
    ELSE IF event.kind = "exception"
    THEN [success |-> FALSE, error |-> "Connection refused"]
    ELSE IF event.code \notin {200, 201, 202}
    THEN [success |-> FALSE, error |-> "SendGrid API error"]
    ELSE [success |-> TRUE, message |-> "Email sent"]

\* lines 172-214
send_sms_alert(to_phone, message, event) ==
    IF ~TWILIO_ACCOUNT_SID \/ ~TWILIO_AUTH_TOKEN
    THEN [success |-> FALSE, error |-> "Twilio credentials not configured"]
    ELSE IF event.kind = "import_error"
    THEN [success |-> FALSE, error |-> "Twilio library not installed"]
    ELSE IF event.kind = "exception"
    THEN [success |-> FALSE, error |-> "Unable to create record"]
    ELSE [success |-> TRUE, message_sid |-> "SM1"]

(***************************************************************************)
(* Channels and detection data                                             *)
(***************************************************************************)
MaxWebhooks == 2       \* most webhooks of one user

Urls == << "https://a.example/hook", "https://b.example/hook",
           "https://c.example/hook", "https://d.example/hook" >>
EventTypes == { "all", "fire_detected", "smoke_detected" }

WebhooksOfLen(n) ==
    { [i \in 1..n |-> [url |-> Urls[i], event_type |-> f[i]]] : f \in [1..n -> EventTypes] }

WebhookLists == UNION { WebhooksOfLen(n) : n \in 0..MaxWebhooks }

Address == "owner@example.com"
Phone   == "+15550100"
MinConfidences == { 0, 50, 51 }

\* the email_settings argument: absent, disabled, or enabled; "" is no address
EmailSettings ==
    { None,
      [enabled |-> FALSE, email_address |-> Address, min_confidence |-> 50,
       alert_for_fire |-> TRUE, alert_for_smoke |-> TRUE],
      [enabled |-> TRUE, email_address |-> "", min_confidence |-> 0,
       alert_for_fire |-> TRUE, alert_for_smoke |-> TRUE] }
    \cup [enabled : {TRUE}, email_address : {Address}, min_confidence : MinConfidences,
          alert_for_fire : BOOLEAN, alert_for_smoke : BOOLEAN]

\* the sms_settings argument
SmsSettings ==
    { None, [enabled |-> FALSE, phone_number |-> Phone, min_confidence |-> 50] }
    \cup [enabled : {TRUE}, phone_number : {Phone}, min_confidence : MinConfidences]

str_person == <<112,101,114,115,111,110>>             \* "person"

\* the inference responses a detection result is built from
AlertPredictionLists ==
    { <<>>,
      << [class |-> str_Fire,   confidence |-> Pct(90), box |-> Box] >>,
      << [class |-> str_smoke,  confidence |-> Pct(50), box |-> Box] >>,
      << [class |-> str_Fire,   confidence |-> Pct(90), box |-> Box],
         [class |-> str_smoke,  confidence |-> Pct(50), box |-> Box] >>,
      << [class |-> str_person, confidence |-> Pct(90), box |-> Box] >> }

\* app.py lines 321-325: {**enhanced_result, "timestamp": ..., "location": ...}
DetectionData(enhanced_result, location) ==
    [timestamp |-> "2024-01-01 09:00:00", location |-> location] @@ enhanced_result

\* the float x compared with the number n: x >= n
AtLeast(x, n) == x \div ConfOne >= n

\* the float x * 100 compared with the number n: x * 100 >= n
TimesHundredAtLeast(x, n) == x \div (ConfOne \div 100) >= n

(***************************************************************************)
(* trigger_alerts (notifications.py).  `net` gives the event of each       *)
(* request: one per webhook position, one for the email, one for the SMS.  *)
(***************************************************************************)
\* lines 245-249
should_trigger(event_type, has_fire, has_smoke) ==
    \/ event_type = "all"
    \/ event_type = "fire_detected" /\ has_fire
    \/ event_type = "smoke_detected" /\ has_smoke

\* lines 239-256: the entries the loop appends for webhooks[1..n]
RECURSIVE WebhookEntries(_, _, _, _)
WebhookEntries(detection_data, webhooks, events, n) ==
    IF n = 0 THEN <<>>
    ELSE LET rest    == WebhookEntries(detection_data, webhooks, events, n - 1)
             webhook == webhooks[n]
         IN  IF should_trigger(Get(webhook, "event_type", "all"),
                               Get(detection_data, "has_fire", FALSE),
                               Get(detection_data, "has_smoke", FALSE))
             THEN Append(rest, [url    |-> webhook.url,
                                result |-> send_webhook(webhook.url, detection_data,
                                                        events[n])])
             ELSE rest

\* lines 268-271: max_confidence is compared as detection_data holds it
should_send(detection_data, email_settings) ==
    /\ AtLeast(Get(detection_data, "max_confidence", 0),
               Get(email_settings, "min_confidence", 50))
    /\ \/ Get(detection_data, "has_fire", FALSE)
          /\ Get(email_settings, "alert_for_fire", TRUE)
       \/ Get(detection_data, "has_smoke", FALSE)
          /\ Get(email_settings, "alert_for_smoke", TRUE)

\* lines 259-279
EmailEntries(detection_data, email_settings, event) ==
    IF email_settings # None /\ Get(email_settings, "enabled", FALSE)
    THEN LET to_email == Get(email_settings, "email_address", "")
         IN  IF should_send(detection_data, email_settings) /\ to_email # ""
             THEN << [to     |-> to_email,
                      result |-> send_email_alert(to_email, "ALERT: Fire/Smoke Detected!",
                                                  detection_data, event)] >>
             ELSE <<>>
    ELSE <<>>

\* lines 282-295: the confidence test is the only test
SmsEntries(detection_data, sms_settings, event) ==
    IF sms_settings # None /\ Get(sms_settings, "enabled", FALSE)
    THEN LET to_phone == Get(sms_settings, "phone_number", "")
         IN  IF AtLeast(Get(detection_data, "max_confidence", 0),
                        Get(sms_settings, "min_confidence", 50))
                /\ to_phone # ""
             THEN << [to     |-> to_phone,
                      result |-> send_sms_alert(to_phone,
                                    IF Get(detection_data, "has_fire", FALSE)
                                    THEN "ALERT: Fire detected" ELSE "ALERT: Smoke detected",
                                    event)] >>
             ELSE <<>>
    ELSE <<>>

\* lines 216-297
trigger_alerts(detection_data, webhooks, email_settings, sms_settings, net) ==
    [webhooks |-> WebhookEntries(detection_data, webhooks, net.webhooks, Len(webhooks)),
     emails   |-> EmailEntries(detection_data, email_settings, net.email),
     sms      |-> SmsEntries(detection_data, sms_settings, net.sms)]

AlertResults == { basic_result(p) : p \in AlertPredictionLists }

\* the requests a call makes, and so the events the network can answer with
Refused(webhooks) == [webhooks |-> [i \in DOMAIN webhooks |-> [kind |-> "exception"]],
                      email    |-> [kind |-> "exception"],
                      sms      |-> [kind |-> "exception"]]

NetsOf(detection_data, webhooks, email_settings, sms_settings) ==
    LET made == trigger_alerts(detection_data, webhooks, email_settings, sms_settings,
                               Refused(webhooks))
        posted(i) == \E k \in DOMAIN made.webhooks : made.webhooks[k].url = webhooks[i].url
    IN  { net \in [webhooks : [DOMAIN webhooks -> WebhookEvents \cup {NoRequest}],
                   email    : EmailEvents \cup {NoRequest},
                   sms      : SmsEvents \cup {NoRequest}] :
            /\ \A i \in DOMAIN webhooks : (net.webhooks[i] = NoRequest) <=> ~posted(i)
            /\ (net.email = NoRequest) <=> (made.emails = <<>> \/ ~SENDGRID_API_KEY)
            /\ (net.sms = NoRequest) <=>
                  (made.sms = <<>> \/ ~TWILIO_ACCOUNT_SID \/ ~TWILIO_AUTH_TOKEN) }

\* a call of trigger_alerts
CallTriggerAlerts ==
    /\ ta = Idle /\ rd = Idle
    /\ \E result \in AlertResults, webhooks \in WebhookLists,
          email_settings \in EmailSettings, sms_settings \in SmsSettings :
          LET detection_data == DetectionData(result, str_Unknown)
          IN  \E net \in NetsOf(detection_data, webhooks, email_settings, sms_settings) :
                 ta' = [status         |-> "returned",
                        detection_data |-> detection_data,
                        webhooks       |-> webhooks,
                        email_settings |-> email_settings,
                        sms_settings   |-> sms_settings,
                        net            |-> net,
                        out            |-> trigger_alerts(detection_data, webhooks,
                                               email_settings, sms_settings, net)]
    /\ UNCHANGED <<SENDGRID_API_KEY, TWILIO_ACCOUNT_SID, TWILIO_AUTH_TOKEN, rd>>

(***************************************************************************)
(* The single-image route /roboflow/detect (app.py lines 202-401), with    *)
(* ROBOFLOW_API_KEY configured and a valid image in the request.  A        *)
(* request is a file upload (form fields) or a JSON body.  `sends` lists   *)
(* the calls of send_webhook, send_email_alert and send_sms_alert the      *)
(* handler makes; it uses none of their results.                           *)
(***************************************************************************)
RouteLocations == { str_Unknown, str_Kitchen }
RouteHours     == { 9 }
DEFAULT_ALERT_EMAIL == ""          \* os.getenv('DEFAULT_ALERT_EMAIL'), not set
DEFAULT_ALERT_PHONE == ""          \* os.getenv('DEFAULT_ALERT_PHONE'), not set

\* the prediction lists of the route: those above, and a smoke box of
\* confidence 0, on which adjust_confidence raises under an adverse weather
RoutePredictionLists ==
    AlertPredictionLists
    \cup { << [class |-> str_smoke, confidence |-> 0, box |-> Box] >> }

\* what the inference API does with the POST of lines 234-239
InferenceEvents ==
    { [kind |-> "timeout"], [kind |-> "exception"], [kind |-> "status", code |-> 500] }
    \cup { [kind |-> "status", code |-> 200, predictions |-> p] : p \in RoutePredictionLists }

\* what get_weather returns during a request: nothing, a clear day or fog
RouteFetches(api_key) ==
    IF api_key
    THEN { None,
           [condition |-> "Clear", temperature |-> 10, humidity |-> 85,
            visibility |-> 10000],
           [condition |-> "Fog", temperature |-> 9, humidity |-> 86,
            visibility |-> 999] }
    ELSE { None }

\* request.api_key_info (line 295): what an authentication wrapper left on
\* the request, or None
ApiKeyInfos == { None, [user_id |-> 1, id |-> 7] }

\* a row of the alert_settings table (database.py lines 109-123)
AlertSettingsRows ==
    [email_enabled : BOOLEAN, sms_enabled : BOOLEAN,
     email_address : {Address}, phone_number : {Phone},
     min_confidence : {50, 51},
     alert_for_fire : BOOLEAN, alert_for_smoke : BOOLEAN]

\* lines 264-266: the flag is read from a JSON body only
IsWebcamForContext(request) == request.shape = "json" /\ request.is_webcam

\* lines 317-318: the flag is read from the form or from the JSON body
IsWebcamForAlerts(request) == request.is_webcam

\* line 273
CallsSmartDetection(request, basic) ==
    request.use_context /\ basic.count > 0 /\ ~IsWebcamForContext(request)

\* line 296
LogsDetection(request, basic) ==
    ~IsWebcamForContext(request)
    \/ (IsWebcamForContext(request) /\ (basic.has_fire \/ basic.has_smoke))

\* line 320
EntersAlerts(request, basic) ==
    (basic.has_fire \/ basic.has_smoke) /\ IsWebcamForAlerts(request)

\* lines 273-291: `sd_out` is the outcome of the smart_detection call
RouteEnhancedResult(request, basic, sd_out) ==
    [processing_time_ms |-> 120] @@
    (IF CallsSmartDetection(request, basic)
     THEN IF sd_out.raised
          THEN [alert |-> basic.has_fire \/ basic.has_smoke] @@ basic
          ELSE sd_out.value
     ELSE IF basic.count > 0
          THEN [alert |-> basic.has_fire \/ basic.has_smoke] @@ basic
          ELSE basic)

HasClassExact(predictions, cls) ==
    \E i \in DOMAIN predictions : predictions[i].class = cls

\* database.py lines 127-155: the row log_detection inserts
log_detection(predictions, user_id, location, weather_context) ==
    [user_id         |-> user_id,
     detection_count |-> Len(predictions),
     has_fire        |-> HasClassExact(predictions, str_fire),
     has_smoke       |-> HasClassExact(predictions, str_smoke),
     max_confidence  |-> MaxConfidence(predictions),
     location        |-> location,
     weather_context |-> weather_context]

\* lines 293-313: a failure of log_detection is caught and printed
RouteLog(request, basic, enhanced_result, env) ==
    IF ~LogsDetection(request, basic) THEN [kind |-> "skipped"]
    ELSE IF env.log_error THEN [kind |-> "failed"]
    ELSE [kind |-> "stored",
          row  |-> log_detection(basic.predictions,
                                 IF env.api_key_info # None
                                 THEN env.api_key_info.user_id ELSE None,
                                 request.location,
                                 Get(enhanced_result, "weather_context", None))]

Or(a, b) == IF a # "" THEN a ELSE b

\* lines 334-353: the stored settings of an authenticated user, or the
\* settings made of the request's parameters and the environment
RouteAlertSettings(request, env) ==
    LET notification_email == IF request.shape = "json"
                              THEN request.notification_email ELSE ""
        notification_phone == IF request.shape = "json"
                              THEN request.notification_phone ELSE ""
        stored == IF env.api_key_info # None THEN env.alert_settings ELSE None
    IN  IF stored # None THEN stored
        ELSE [email_enabled   |-> Or(notification_email, DEFAULT_ALERT_EMAIL) # "",
              email_address   |-> Or(notification_email, DEFAULT_ALERT_EMAIL),
              sms_enabled     |-> Or(notification_phone, DEFAULT_ALERT_PHONE) # "",
              phone_number    |-> Or(notification_phone, DEFAULT_ALERT_PHONE),
              alert_for_fire  |-> TRUE,
              alert_for_smoke |-> TRUE,
              min_confidence  |-> 50]

\* lines 328-332: every stored webhook of the user is posted to
RouteWebhookSends(env) ==
    IF env.api_key_info # None
    THEN [i \in DOMAIN env.webhooks |-> [channel |-> "webhook",
                                         to      |-> env.webhooks[i].url]]
    ELSE <<>>

\* lines 355-389
RouteEmailSmsSends(basic, alert_settings) ==
    LET should_alert ==
            \/ basic.has_fire /\ Get(alert_settings, "alert_for_fire", FALSE)
            \/ basic.has_smoke /\ Get(alert_settings, "alert_for_smoke", FALSE)
    IN  IF should_alert
           /\ TimesHundredAtLeast(basic.max_confidence,
                                  Get(alert_settings, "min_confidence", 50))
        THEN (IF Get(alert_settings, "email_enabled", FALSE)
                 /\ Get(alert_settings, "email_address", "") # ""
              THEN << [channel |-> "email", to |-> alert_settings.email_address] >>
              ELSE <<>>)
             \o
             (IF Get(alert_settings, "sms_enabled", FALSE)
                 /\ Get(alert_settings, "phone_number", "") # ""
              THEN << [channel |-> "sms", to |-> alert_settings.phone_number] >>
              ELSE <<>>)
        ELSE <<>>

\* lines 315-389: the sends, and whether request.json raised at line 335
\* (on a form request it is None or raises, depending on the Flask version)
RouteAlerts(request, basic, env) ==
    IF ~EntersAlerts(request, basic) THEN [raised |-> FALSE, sends |-> <<>>]
    ELSE IF request.shape = "file" /\ env.form_json = "unsupported"
    THEN [raised |-> TRUE, sends |-> RouteWebhookSends(env)]
    ELSE [raised |-> FALSE,
          sends  |-> RouteWebhookSends(env)
                     \o RouteEmailSmsSends(basic, RouteAlertSettings(request, env))]

\* lines 240-245 and 392-393: the responses without a detection result
RouteFailure(inference) ==
    IF inference.kind = "timeout"
    THEN [code |-> 200, body |-> [error |-> "Roboflow API timeout",
                                  predictions |-> <<>>, count |-> 0]]
    ELSE IF inference.kind = "exception"
    THEN [code |-> 200, body |-> [error |-> "Roboflow API error",
                                  predictions |-> <<>>, count |-> 0]]
    ELSE [code |-> inference.code, body |-> [error |-> "Roboflow API error"]]

\* a variant in which a failure of log_detection reaches the handler of
\* line 395
RouteResponse_LogAborts(logged, alerted, enhanced_result) ==
    IF logged.kind = "failed"
    THEN [code |-> 500, body |-> [error |-> "database is locked"]]
    ELSE IF alerted.raised
    THEN [code |-> 500, body |-> [error |-> "415 Unsupported Media Type"]]
    ELSE [code |-> 200, body |-> enhanced_result]

\* lines 311-313, 391 and 395-401: a failure of log_detection is caught where
\* it happens; an exception of the alert section reaches the outer handler
RouteResponse(logged, alerted, enhanced_result) ==
    IF alerted.raised
    THEN [code |-> 500, body |-> [error |-> "415 Unsupported Media Type"]]
    ELSE [code |-> 200, body |-> enhanced_result]

\* one request to /roboflow/detect, from the POST to the response
roboflow_detect ==
    /\ ta = Idle /\ rd = Idle
    /\ \E shape \in {"file", "json"}, is_webcam \in BOOLEAN, use_context \in BOOLEAN,
          location \in RouteLocations, inference \in InferenceEvents :
          LET bare == [shape |-> shape, is_webcam |-> is_webcam,
                       use_context |-> use_context, location |-> location,
                       notification_email |-> "", notification_phone |-> ""]
          IN  IF inference.kind # "status" \/ inference.code # 200
              THEN rd' = [status    |-> "returned",
                          request   |-> bare,
                          inference |-> inference,
                          sends     |-> <<>>,
                          logged    |-> [kind |-> "skipped"],
                          out       |-> RouteFailure(inference)]
              ELSE
              LET basic  == basic_result(inference.predictions)
                  alerts == EntersAlerts(bare, basic)
                  smart  == CallsSmartDetection(bare, basic)
              IN  \E notification_email \in (IF alerts /\ shape = "json"
                                            THEN {"", Address} ELSE {""}),
                     notification_phone \in (IF alerts /\ shape = "json"
                                            THEN {"", Phone} ELSE {""}),
                     api_key_info \in ApiKeyInfos,
                     log_error \in (IF LogsDetection(bare, basic) THEN BOOLEAN ELSE {FALSE}),
                     hour \in (IF smart THEN RouteHours ELSE {9}),
                     weather \in (IF smart THEN RouteFetches(OPENWEATHER_API_KEY)
                                 ELSE {None}) :
                  \E fetched \in (IF smart /\ weather = None
                                  THEN RouteFetches(OPENWEATHER_API_KEY) ELSE {None}),
                     webhooks \in (IF alerts /\ api_key_info # None
                                   THEN WebhookLists ELSE {<<>>}),
                     alert_settings \in (IF alerts /\ api_key_info # None
                                         THEN AlertSettingsRows \cup {None} ELSE {None}),
                     form_json \in (IF alerts /\ shape = "file"
                                    THEN {"none", "unsupported"} ELSE {"none"}) :
                     LET request == [bare EXCEPT !.notification_email = notification_email,
                                                 !.notification_phone = notification_phone]
                         env == [api_key_info   |-> api_key_info,
                                 webhooks       |-> webhooks,
                                 alert_settings |-> alert_settings,
                                 form_json      |-> form_json,
                                 log_error      |-> log_error,
                                 hour           |-> hour,
                                 weather        |-> weather]
                         first == basic.predictions[1]
                         adj == IF smart
                                THEN adjust_confidence(first.class, first.confidence,
                                                       weather, fetched)
                                ELSE None
                         sd_out == IF smart
                                   THEN smart_detection(basic, location, hour, weather, adj)
                                   ELSE None
                         enhanced_result == RouteEnhancedResult(request, basic, sd_out)
                         alerted == RouteAlerts(request, basic, env)
                         logged == RouteLog(request, basic, enhanced_result, env)
                     IN  rd' = [status          |-> "returned",
                                request         |-> request,
                                inference       |-> inference,
                                env             |-> env,
                                basic_result    |-> basic,
                                smart           |-> IF smart
                                                    THEN [called |-> TRUE,
                                                          raised |-> sd_out.raised]
                                                    ELSE [called |-> FALSE,
                                                          raised |-> FALSE],
                                enhanced_result |-> enhanced_result,
                                alert_error     |-> alerted.raised,
                                sends           |-> alerted.sends,
                                logged          |-> logged,
                                out             |-> RouteResponse(logged, alerted,
                                                                  enhanced_result)]
    /\ UNCHANGED <<SENDGRID_API_KEY, TWILIO_ACCOUNT_SID, TWILIO_AUTH_TOKEN, ta>>

InitAlerts == /\ AdjIdle /\ BatchIdle /\ VideoIdle /\ AnalyzeIdle
              /\ SENDGRID_API_KEY \in BOOLEAN
              /\ TWILIO_ACCOUNT_SID \in BOOLEAN
              /\ TWILIO_AUTH_TOKEN \in BOOLEAN
              /\ ta = Idle
              /\ rd = Idle

NextAlerts ==
    CallTriggerAlerts /\ UNCHANGED <<adjVars, batchVars, videoVars, analyzeVars>>

SpecAlerts == InitAlerts /\ [][NextAlerts]_vars

\* the route uses no result of a sender, so the providers' credentials are
\* left unset here
InitRoute == AdjInit /\ BatchIdle /\ VideoIdle /\ AnalyzeIdle /\ AlertIdle

NextRoute ==
    roboflow_detect /\ UNCHANGED <<adjVars, batchVars, videoVars, analyzeVars>>

SpecRoute == InitRoute /\ [][NextRoute]_vars

(***************************************************************************)
(* Properties of the context adjuster (SpecAdjust)                         *)
(***************************************************************************)
SdEnhanced == sd.status = "returned" /\ sd.image_result.count > 0
SdFirst    == sd.image_result.predictions[1]
SdAdjusted == sd.out.value.predictions[1].adjusted_confidence

\* C3: for every weather, hour and location, a smoke detection's adjusted
\* confidence is at most its raw confidence and a fire detection's adjusted
\* confidence equals its raw confidence.
C3_Monotone ==
    /\ SdEnhanced =>
           /\ Lower(SdFirst.class) = str_smoke => SdAdjusted <= SdFirst.confidence
           /\ Lower(SdFirst.class) = str_fire  => SdAdjusted = SdFirst.confidence
    /\ ac.status = "returned" =>
           /\ Lower(ac.detected_class) = str_smoke => ac.out.confidence <= ac.confidence
           /\ Lower(ac.detected_class) = str_fire  => ac.out.confidence = ac.confidence

C3_Witness ==
    /\ SdEnhanced
    /\ SdFirst.class = str_SMOKE
    /\ SdFirst.confidence = Pct(90)
    /\ SdAdjusted < SdFirst.confidence
    /\ sd.weather # None /\ sd.weather.condition = "Mist"
    /\ sd.hour = 8 /\ sd.location = str_BATHROOM

\* C4 as stated: called with the weather argument absent, adjust_confidence
\* returns the raw confidence unchanged with the no-weather trace.
C4_AbsentArgumentPassthrough ==
    (ac.status # "idle" /\ ac.weather_arg = None) =>
        /\ ac.status = "returned"
        /\ ac.out.confidence = ac.confidence
        /\ ac.out.reason.kind = "No weather context available"

\* C4 amended: called with the weather argument absent, adjust_confidence
\* fetches the weather itself; when that fetch also yields none it returns
\* the raw confidence unchanged with the no-weather trace, for every class
\* and raw confidence.
C4_NoWeatherPassthrough ==
    (ac.status # "idle" /\ ac.weather_arg = None /\ ac.out.weather = None) =>
        /\ ac.status = "returned"
        /\ ac.out.confidence = ac.confidence
        /\ ac.out.reason = [kind |-> "No weather context available",
                            adjustments |-> <<>>]

C4_Witness ==
    /\ OPENWEATHER_API_KEY
    /\ sd = Idle
    /\ ac.status = "returned"
    /\ ac.weather_arg = None /\ ac.out.weather = None
    /\ ac.detected_class = str_smoke
    /\ ac.confidence = Pct(90) /\ ac.out.confidence = Pct(90)

\* C5: the alert decision is true exactly when the adjusted confidence is
\* strictly greater than 0.3: exactly 0.30 gives no alert, 0.31 an alert.
C5_StrictThreshold ==
    SdEnhanced =>
        /\ sd.out.value.alert <=> (SdAdjusted > 3 * (ConfOne \div 10))
        /\ SdAdjusted = 30 * (ConfOne \div 100) => ~sd.out.value.alert
        /\ SdAdjusted = 31 * (ConfOne \div 100) => sd.out.value.alert

C5_Witness ==
    /\ SdEnhanced
    /\ SdFirst.confidence = Pct(50)
    /\ SdAdjusted = 30 * (ConfOne \div 100)
    /\ ~sd.out.value.alert

\* the multiplier, in tenths, of each of the six rules in the returned state
C6_Tenths ==
    LET smoke == Lower(SdFirst.class) = str_smoke
        w     == ac.out.weather      \* the weather adjust_confidence worked with
        on(rule, tenths) == IF smoke /\ rule THEN tenths ELSE 10
    IN  << on(w # None /\ w.condition \in {"Fog", "Mist", "Haze"}, 5),
           on(w # None /\ w.visibility < 1000, 6),
           on(w # None /\ w.humidity > 85, 8),
           on(w # None /\ w.temperature < 10, 9),
           on(sd.hour \in 5..8, 8),
           on(sd.location \in {str_kitchen, str_Kitchen, str_bathroom, str_BATHROOM}, 6) >>

\* C6: the weather, time-of-day (hour in 5..8) and location (kitchen or
\* bathroom, case-insensitively) layers all compound by multiplication: the
\* adjusted confidence is the raw confidence times the product of the
\* multipliers of every rule that triggers; with all six triggered it is
\* raw x 0.5 x 0.6 x 0.8 x 0.9 x 0.8 x 0.6.
C6_Compounding ==
    SdEnhanced =>
        LET m   == C6_Tenths
            raw == SdFirst.confidence \div 10^6      \* raw confidence, in hundredths
        IN  /\ raw * 10^6 = SdFirst.confidence
            \* adjusted / 10^8 = (raw / 100) * (m1 / 10) * ... * (m6 / 10)
            /\ SdAdjusted = raw * m[1] * m[2] * m[3] * m[4] * m[5] * m[6]
            /\ m = <<5, 6, 8, 9, 8, 6>> => SdAdjusted = raw * (5 * 6 * 8 * 9 * 8 * 6)

C6_Witness ==
    /\ SdEnhanced
    /\ SdFirst.class = str_smoke /\ SdFirst.confidence = Pct(90)
    /\ sd.weather = [condition |-> "Fog", temperature |-> 9, humidity |-> 86,
                     visibility |-> 999]
    /\ sd.hour = 5 /\ sd.location = str_Kitchen
    /\ SdAdjusted = 9331200          \* 0.093312

\* C7: every field of the input detection result, the full ordered
\* predictions sequence and each prediction's original fields included, is
\* present with the same value in the result of smart_detection.
C7_Additive ==
    sd.status = "returned" =>
        LET in  == sd.image_result
            out == sd.out.value
        IN  /\ \A k \in DOMAIN in \ {"predictions"} :
                   k \in DOMAIN out /\ out[k] = in[k]
            /\ Len(out.predictions) = Len(in.predictions)
            /\ \A i \in DOMAIN in.predictions :
                   \A f \in DOMAIN in.predictions[i] :
                      /\ f \in DOMAIN out.predictions[i]
                      /\ out.predictions[i][f] = in.predictions[i][f]

\* C8: adjust_confidence raises no exception, for any detected class, any
\* raw confidence of the data model's range (0 included) and any weather.
C8_NeverRaises == ac.status # "raised"

(***************************************************************************)
(* Properties of the batch detector and the video pipeline (SpecPipeline)  *)
(***************************************************************************)
BatchReturned == bpc = "done"

C1_IndexOrder ==
    BatchReturned =>
        /\ Len(results) = Len(images)
        /\ \A i \in DOMAIN results : results[i].index = i - 1

C1_CoordinatorOnly ==
    /\ results' # results => (bpc = "collect" /\ future' = future)
    /\ (bpc = "collect" /\ bpc' = "done") =>
           \A i \in DOMAIN future : future[i] = "done"
    /\ bpc = "done" => results' = results

\* C1: process_batch_images returns exactly N results whose index fields are
\* 0..N-1 in that order, whatever order the workers complete in; a step that
\* changes the result list is a step of the coordinating thread and of no
\* worker, the sort is taken only when every worker has finished, and the
\* list is not touched again after it.
C1_OrderedResults == [] C1_IndexOrder /\ [][C1_CoordinatorOnly]_vars

C1_Witness ==
    /\ BatchReturned /\ vpc = "idle"
    /\ max_workers = 2
    /\ collected = <<3, 1, 2>>
    /\ \A i \in 1..3 : results[i].index = i - 1

C2_Failed(i) ==
    \/ response[i].kind \in {"timeout", "decode_error"}
    \/ response[i].kind = "http" /\ response[i].code # 200

\* C2: for any subset F of items whose processing fails (timeout, non-200
\* response, decode error) process_batch_images still returns N results:
\* exactly the items of F carry success=false with an error, every other item
\* a normal success=true result, and analyze_batch_results reports
\* failed=|F| and successful=N-|F|.
C2_PartialFailure ==
    BatchReturned =>
        LET F       == { i \in DOMAIN images : C2_Failed(i) }
            summary == analyze_batch_results(results)
        IN  /\ Len(results) = Len(images)
            /\ \A i \in F :
                   /\ results[i].success = FALSE
                   /\ "error" \in DOMAIN results[i]
            /\ \A i \in DOMAIN images \ F :
                   /\ results[i].success = TRUE
                   /\ results[i].predictions = response[i].predictions
                   /\ results[i].count = Len(response[i].predictions)
            /\ summary.failed = Cardinality(F)
            /\ summary.successful = Len(images) - Cardinality(F)

C2_Witness ==
    /\ BatchReturned
    /\ Len(images) = 3
    /\ response[1].kind = "http" /\ response[1].code = 200
    /\ response[2].kind = "timeout"
    /\ response[3].kind = "http" /\ response[3].code = 200
    /\ results[2].success = FALSE
    /\ analyze_batch_results(results).failed = 1
    /\ analyze_batch_results(results).successful = 2

\* C9: on a source from which the frame sampler yields zero frames,
\* process_video_detection returns success=false with an error and
\* process_batch_images is never entered.
C9_EmptyShortCircuit ==
    (vpc # "idle" /\ extracted.value = <<>>) =>
        /\ vpc = "done"
        /\ vresult.success = FALSE
        /\ "error" \in DOMAIN vresult
        /\ bpc = "idle"

C9_Witness ==
    /\ vpc = "done"
    /\ video.source.opens /\ video.source.stream_len = 0
    /\ video.max_frames > 0
    /\ extracted.value = <<>>
    /\ vresult.success = FALSE
    /\ bpc = "idle"

\* C10: when the stream cannot be opened extract_video_frames fails with an
\* error visible to the caller, and when the stream opens but yields no
\* usable frame it returns an empty sequence, so that the caller can tell
\* the two apart.
C10_OpenFailureVisible ==
    vpc # "idle" =>
        /\ ~video.source.opens => extracted.raised
        /\ (video.source.opens /\ video.source.stream_len = 0) =>
               (~extracted.raised /\ extracted.value = <<>>)

VideoCalled == vpc # "idle"

\* round(x) of Python 3 for x = video_fps2 / (2 * fps): to nearest, ties to even
C11_Round(video_fps2, fps) ==
    LET q == video_fps2 \div (2 * fps)
        r == video_fps2 % (2 * fps)
    IN  IF r < fps THEN q
        ELSE IF r > fps THEN q + 1
        ELSE IF q % 2 = 0 THEN q ELSE q + 1

C11_SpecInterval(video_fps2, fps) ==
    IF C11_Round(video_fps2, fps) < 1 THEN 1 ELSE C11_Round(video_fps2, fps)

\* C11: for every source frame rate and every target rate the frame sampler
\* uses frameInterval = round(sourceFps / targetFps) with a minimum of 1, never
\* a zero interval, and keeps exactly the decoded frames whose position is a
\* multiple of frameInterval (up to max_frames of them).
C11_RoundedInterval ==
    (VideoCalled /\ video.source.opens /\ video.fps > 0) =>
        LET used == FrameInterval(video.source.video_fps2, video.fps)
            want == (video.source.stream_len + used - 1) \div used
        IN  /\ used >= 1
            /\ used = C11_SpecInterval(video.source.video_fps2, video.fps)
            /\ Len(extracted.value) = IF want < video.max_frames THEN want
                                      ELSE video.max_frames
            /\ \A k \in DOMAIN extracted.value :
                   extracted.value[k].position = (k - 1) * used

\* C12: for every source length extract_video_frames returns at most
\* max_frames frames and reads no frame after max_frames frames are kept or
\* after the stream has ended: with max_frames kept the last frame read is the
\* last frame kept, and when the loop ends with fewer the whole stream, and
\* no more, has been read.
C12_BoundedSampling ==
    (VideoCalled /\ video.source.opens) =>
        LET kept == extracted.value
        IN  /\ Len(kept) <= video.max_frames
            /\ extracted.reads <= video.source.stream_len
            /\ video.max_frames = 0 => extracted.reads = 0
            /\ (Len(kept) = video.max_frames /\ video.max_frames > 0) =>
                   extracted.reads = kept[Len(kept)].position + 1
            /\ (Len(kept) < video.max_frames
                   /\ FrameInterval(video.source.video_fps2, video.fps) >= 1) =>
                   extracted.reads = video.source.stream_len

C12_Witness ==
    /\ VideoCalled
    /\ video.source.opens /\ video.source.stream_len = 3
    /\ video.max_frames = 2
    /\ Len(extracted.value) = 2
    /\ extracted.reads = 2

(***************************************************************************)
(* Properties of analyze_batch_results (SpecAnalyze)                       *)
(***************************************************************************)
\* the rate num/den is the number p / q x 100, or 0 when q is 0
C13_IsPercentOf(rate, p, q) ==
    IF q = 0 THEN rate.num = 0
    ELSE rate.num * q = p * 100 * rate.den

\* C13: success_rate = successful/total x 100, fire_rate =
\* fire_detected/successful x 100 and smoke_rate = smoke_detected/successful
\* x 100 (over successful, not total), each 0 when its denominator is 0;
\* total=10, successful=8, fire=3, smoke=2 gives 80.0, 37.5 and 25.0.
C13_Rates ==
    ab.status = "returned" =>
        LET successful == ab.n_fire + ab.n_smoke + ab.n_both + ab.n_clean
            total      == successful + ab.n_failed
            fire       == ab.n_fire + ab.n_both
            smoke      == ab.n_smoke + ab.n_both
        IN  /\ C13_IsPercentOf(ab.out.success_rate, successful, total)
            /\ C13_IsPercentOf(ab.out.fire_rate, fire, successful)
            /\ C13_IsPercentOf(ab.out.smoke_rate, smoke, successful)
            /\ (total = 10 /\ successful = 8 /\ fire = 3 /\ smoke = 2) =>
                   /\ ab.out.success_rate.num = 80 * ab.out.success_rate.den
                   /\ 2 * ab.out.fire_rate.num = 75 * ab.out.fire_rate.den
                   /\ ab.out.smoke_rate.num = 25 * ab.out.smoke_rate.den

C13_Witness ==
    /\ ab.status = "returned"
    /\ ab.n_fire = 3 /\ ab.n_smoke = 2 /\ ab.n_both = 0
    /\ ab.n_clean = 3 /\ ab.n_failed = 2
    /\ Len(ab.results) = 10
    /\ ab.out.successful = 8
    /\ ab.out.success_rate = [num |-> 800, den |-> 10]
    /\ ab.out.fire_rate = [num |-> 300, den |-> 8]
    /\ ab.out.smoke_rate = [num |-> 200, den |-> 8]

(***************************************************************************)
(* Properties of the alert dispatch (SpecAlerts, SpecRoute)                *)
(***************************************************************************)
TaReturned == ta.status = "returned"

\* the request got a detection result and its alert section ran to its end
RdDispatched ==
    /\ rd.status = "returned"
    /\ "basic_result" \in DOMAIN rd
    /\ EntersAlerts(rd.request, rd.basic_result)
    /\ rd.out.code = 200

RdSent(channel, to) ==
    \E k \in DOMAIN rd.sends : rd.sends[k] = [channel |-> channel, to |-> to]

\* the webhook trigger rule of the dispatcher
C14_Rule(event_type, result) ==
    \/ event_type = "all"
    \/ event_type = "fire_detected" /\ result.has_fire
    \/ event_type = "smoke_detected" /\ result.has_smoke

C14_TriggerAlerts ==
    TaReturned =>
        \A i \in DOMAIN ta.webhooks :
            (\E k \in DOMAIN ta.out.webhooks :
                 ta.out.webhooks[k].url = ta.webhooks[i].url)
            <=> C14_Rule(ta.webhooks[i].event_type, ta.detection_data)

C14_Route ==
    (RdDispatched /\ rd.env.api_key_info # None) =>
        \A i \in DOMAIN rd.env.webhooks :
            RdSent("webhook", rd.env.webhooks[i].url)
            <=> C14_Rule(rd.env.webhooks[i].event_type, rd.basic_result)

C15_PercentAtLeast(result, min_confidence) ==
    result.max_confidence >= min_confidence * (ConfOne \div 100)

\* the email/SMS trigger rule of the dispatcher
C15_Rule(result, alert_for_fire, alert_for_smoke, min_confidence) ==
    /\ \/ result.has_fire /\ alert_for_fire
       \/ result.has_smoke /\ alert_for_smoke
    /\ C15_PercentAtLeast(result, min_confidence)

C15_TriggerAlerts ==
    (TaReturned /\ ta.email_settings # None /\ ta.email_settings.enabled
        /\ ta.email_settings.email_address # "") =>
        (ta.out.emails # <<>>
         <=> C15_Rule(ta.detection_data, ta.email_settings.alert_for_fire,
                      ta.email_settings.alert_for_smoke,
                      ta.email_settings.min_confidence))

C15_Route ==
    RdDispatched =>
        LET settings == RouteAlertSettings(rd.request, rd.env)
        IN  (settings.email_enabled /\ settings.email_address # "") =>
                (RdSent("email", settings.email_address)
                 <=> C15_Rule(rd.basic_result, settings.alert_for_fire,
                              settings.alert_for_smoke, settings.min_confidence))

\* C15: an email alert is sent for a detection result if and only if ((the
\* result has fire and the channel alerts for fire) or (it has smoke and the
\* channel alerts for smoke)) and the result's maximum confidence as a
\* percentage is >= the channel's min_confidence, in trigger_alerts and in
\* the single-image route handler.
C15_EmailRule == C15_TriggerAlerts /\ C15_Route

C16_TriggerAlerts ==
    TaReturned =>
        /\ ta.out.sms # <<>> =>
              /\ ta.detection_data.has_fire \/ ta.detection_data.has_smoke
              /\ C15_PercentAtLeast(ta.detection_data, ta.sms_settings.min_confidence)
        /\ (~ta.detection_data.has_fire /\ ~ta.detection_data.has_smoke) =>
              ta.out.sms = <<>>

C16_Route ==
    RdDispatched =>
        LET settings == RouteAlertSettings(rd.request, rd.env)
        IN  RdSent("sms", settings.phone_number) =>
                C15_Rule(rd.basic_result, settings.alert_for_fire,
                         settings.alert_for_smoke, settings.min_confidence)

\* C16: an SMS alert is sent for a detection result only if the result has
\* fire or smoke matching the channel's class rule and its maximum confidence
\* as a percentage is >= the channel's min_confidence; a result with neither
\* fire nor smoke never triggers an SMS.
C16_SmsRule == C16_TriggerAlerts /\ C16_Route

C17_Entry(e) == "success" \in DOMAIN e.result

\* C17: trigger_alerts never raises and, for any configured channels and any
\* pattern of send failures, attempts every trigger-eligible channel exactly
\* once and records one entry with success or error for each: one entry per
\* webhook that meets the webhook rule, one for an enabled email channel
\* that meets the email rule, one for an enabled SMS channel that meets it.
C17_IsolatedDispatch ==
    ta.status # "idle" =>
        /\ ta.status = "returned"
        /\ \A i \in DOMAIN ta.webhooks :
               C14_Rule(ta.webhooks[i].event_type, ta.detection_data) =>
                   Cardinality({ k \in DOMAIN ta.out.webhooks :
                                   ta.out.webhooks[k].url = ta.webhooks[i].url }) = 1
        /\ (ta.email_settings # None /\ ta.email_settings.enabled
               /\ ta.email_settings.email_address # ""
               /\ C15_Rule(ta.detection_data, ta.email_settings.alert_for_fire,
                           ta.email_settings.alert_for_smoke,
                           ta.email_settings.min_confidence)) =>
               Len(ta.out.emails) = 1
        /\ (ta.sms_settings # None /\ ta.sms_settings.enabled
               /\ C15_Rule(ta.detection_data, TRUE, TRUE,
                           ta.sms_settings.min_confidence)) =>
               Len(ta.out.sms) = 1
        /\ \A k \in DOMAIN ta.out.webhooks : C17_Entry(ta.out.webhooks[k])
        /\ \A k \in DOMAIN ta.out.emails : C17_Entry(ta.out.emails[k])
        /\ \A k \in DOMAIN ta.out.sms : C17_Entry(ta.out.sms[k])

\* what trigger_alerts does isolate: the channels it attempts are those its
\* own tests select, whatever the earlier sends answered
C17_FailuresDoNotSpread ==
    TaReturned =>
        LET quiet == trigger_alerts(ta.detection_data, ta.webhooks, ta.email_settings,
                                    ta.sms_settings, Refused(ta.webhooks))
        IN  /\ Len(ta.out.webhooks) = Len(quiet.webhooks)
            /\ \A k \in DOMAIN ta.out.webhooks :
                   ta.out.webhooks[k].url = quiet.webhooks[k].url
            /\ Len(ta.out.emails) = Len(quiet.emails)
            /\ Len(ta.out.sms) = Len(quiet.sms)

(***************************************************************************)
(* The timeline of process_video_detection                                 *)
(***************************************************************************)
VideoReturned == vpc = "done" /\ "timeline" \in DOMAIN vresult

\* the results of the frames that have a timeline entry, as positions 1..n of
\* the sampled sequence (the frame at index i is position i + 1)
Succeeded == { j \in DOMAIN results : results[j].success }

\* the entries are the successful frames, each once, in frame order
C18_FramePositions ==
    LET timeline == vresult.timeline
    IN  /\ Len(timeline) = Cardinality(Succeeded)
        /\ \A k \in DOMAIN timeline :
              /\ timeline[k].frame \in Succeeded
              /\ results[timeline[k].frame].index = timeline[k].frame - 1
              /\ extracted.value = images
        /\ \A k, m \in DOMAIN timeline :
              k < m => timeline[k].frame < timeline[m].frame

\* C18 as stated: every timeline entry of a frame at index i has frame number
\* i + 1 and the timestamp i / fps seconds exactly (timestamps are in tenths
\* of a second), and the entries are in increasing frame order
C18_ExactTimestamp ==
    VideoReturned =>
        /\ C18_FramePositions
        /\ \A k \in DOMAIN vresult.timeline :
              vresult.timeline[k].timestamp * video.fps
                 = 10 * (vresult.timeline[k].frame - 1)

\* C18: every timeline entry keeps the position of its frame in the sampled
\* sequence: the entry of the frame at index i has frame number i + 1, also
\* when earlier frames failed, its timestamp is i / fps seconds rounded to one
\* decimal place (at most half a tenth away), and the entries are in
\* increasing frame order
C18_TimelinePositions ==
    VideoReturned =>
        /\ C18_FramePositions
        /\ \A k \in DOMAIN vresult.timeline :
              LET i == vresult.timeline[k].frame - 1
                  t == vresult.timeline[k].timestamp
              IN  /\ 2 * t * video.fps - 20 * i <= video.fps
                  /\ 20 * i - 2 * t * video.fps <= video.fps

\* the first frame failed, the second has the entry numbered 2 at 0.3s
C18_Witness ==
    /\ VideoReturned
    /\ video.fps = 3
    /\ Len(results) = 2
    /\ ~results[1].success
    /\ results[2].success
    /\ Len(vresult.timeline) = 1
    /\ vresult.timeline[1].frame = 2
    /\ vresult.timeline[1].timestamp = 3

\* C19: a timeline entry carries the encoded image of its source frame if and
\* only if its detection count is greater than 0
C19_ImageOnlyWithDetections ==
    VideoReturned =>
        \A k \in DOMAIN vresult.timeline :
            LET entry == vresult.timeline[k]
            IN  /\ ("image_base64" \in DOMAIN entry) <=> (entry.detection_count > 0)
                /\ "image_base64" \in DOMAIN entry =>
                      entry.image_base64 = extracted.value[entry.frame]

\* a timeline with one entry that carries its frame and one that does not
C19_Witness ==
    /\ VideoReturned
    /\ Len(vresult.timeline) = 2
    /\ vresult.timeline[1].detection_count = 0
    /\ "image_base64" \notin DOMAIN vresult.timeline[1]
    /\ vresult.timeline[2].detection_count = 2
    /\ "image_base64" \in DOMAIN vresult.timeline[2]
    /\ vresult.timeline[2].image_base64 = extracted.value[2]

(***************************************************************************)
(* The worker pool of process_batch_images                                 *)
(***************************************************************************)
\* C20: at every moment of process_batch_images the number of items in
\* flight to the inference API is at most max_workers
C20_BoundedConcurrency ==
    bpc # "idle" => Cardinality(Indices("running")) <= max_workers

\* a batch larger than the pool: the pool is full and an item waits
C20_Witness ==
    /\ bpc # "idle"
    /\ Len(images) = 3
    /\ max_workers = 2
    /\ Cardinality(Indices("running")) = 2
    /\ Cardinality(Indices("pending")) = 1

(***************************************************************************)
(* Requests and termination of process_batch_images                        *)
(***************************************************************************)
\* C21: during one process_batch_images call each item is sent to the
\* inference API at most once, also when the request fails or times out: an
\* item whose image decoded and whose future is finished was posted exactly
\* once, and a finished future is never run again
C21_AtMostOnePost ==
    \A i \in DOMAIN images :
        /\ posts[i] <= 1
        /\ future[i] = "done" =>
              /\ posts[i] = Posted(response[i])
              /\ outcome[i] = process_single_image(images[i], i - 1, response[i])

\* a returned batch whose first item timed out and whose second item got a
\* 500: each was posted once
C21_Witness ==
    /\ BatchReturned
    /\ Len(images) = 2
    /\ response[1].kind = "timeout"
    /\ response[2].kind = "http" /\ response[2].code = 500
    /\ posts[1] = 1 /\ posts[2] = 1
    /\ ~results[1].success /\ ~results[2].success

\* C22: once the items are submitted every item runs to completion or to its
\* own failure; when every external call returns or times out,
\* process_batch_images returns, and then with a result for every item
C22_RunsToCompletion ==
    /\ [](bpc = "done" =>
             /\ Len(results) = Len(images)
             /\ \A i \in DOMAIN images :
                   future[i] = "done" /\ results[i] = outcome[i])
    /\ (bpc = "submit") ~> (bpc = "done" /\ Len(results) = Len(images))

\* a batch of three returned although its second call timed out
C22_Witness ==
    /\ bpc = "done"
    /\ Len(images) = 3
    /\ Len(results) = 3
    /\ results[1].success
    /\ response[2].kind = "timeout" /\ ~results[2].success
    /\ results[3].success
    /\ \A i \in DOMAIN images : future[i] = "done"

(***************************************************************************)
(* Failures inside /roboflow/detect                                        *)
(***************************************************************************)
RdReturnedResult == rd.status = "returned" /\ "basic_result" \in DOMAIN rd

\* C23: a failure of the store while log_detection records the detection does
\* not abort the response: the route answers what it answers when the record
\* is stored, the enhanced result computed before the failure (or the error
\* of its alert section, which is the same with and without the failure)
C23_LogFailureIsContained ==
    (RdReturnedResult /\ rd.logged.kind = "failed") =>
        /\ rd.out = IF rd.alert_error
                    THEN [code |-> 500, body |-> [error |-> "415 Unsupported Media Type"]]
                    ELSE [code |-> 200, body |-> rd.enhanced_result]
        /\ ~rd.alert_error =>
              /\ rd.out.body.predictions = rd.enhanced_result.predictions
              /\ rd.out.body.count = rd.basic_result.count
              /\ rd.out.body.has_fire = rd.basic_result.has_fire
              /\ rd.out.body.has_smoke = rd.basic_result.has_smoke

\* the record of a fire could not be stored and the fire is still answered
C23_Witness ==
    /\ RdReturnedResult
    /\ rd.logged.kind = "failed"
    /\ rd.out.code = 200
    /\ rd.out.body.has_fire
    /\ rd.out.body.count = 1
    /\ rd.out.body.alert

\* what the route answers after smart_detection raised: the basic result
\* with alert = has_fire or has_smoke (lines 276-279)
C30_FallbackBody ==
    [processing_time_ms |-> 120]
    @@ [alert |-> rd.basic_result.has_fire \/ rd.basic_result.has_smoke]
    @@ rd.basic_result

\* the fallback itself: when smart_detection raised and the alert section
\* ran to its end, the response is the unadjusted basic result with alert
C30_Fallback ==
    (RdReturnedResult /\ rd.smart.raised /\ ~rd.alert_error) =>
        rd.out = [code |-> 200, body |-> C30_FallbackBody]

\* smart_detection raised and the basic result was answered
C30_FallbackReached ==
    /\ RdReturnedResult
    /\ rd.smart.called /\ rd.smart.raised
    /\ rd.out = [code |-> 200, body |-> C30_FallbackBody]
    /\ rd.out.body.alert

\* C30: a failure of smart_detection never blocks the response: the route
\* then answers the unadjusted basic result with alert = has_fire or
\* has_smoke, and whenever the result has at least one prediction the
\* response carries an alert field, on every path
C30_AlertOnEveryPath ==
    (RdReturnedResult /\ rd.basic_result.count > 0) =>
        /\ rd.out.code = 200
        /\ "alert" \in DOMAIN rd.out.body
        /\ rd.smart.raised => rd.out.body = C30_FallbackBody

(***************************************************************************)
(* The weather chain of adjust_confidence and the recommendation           *)
(***************************************************************************)
\* the multipliers, in tenths, of the four weather rules for the weather w,
\* 10 for a rule that does not trigger
C24_Tenths(w) ==
    << IF w.condition \in {"Fog", "Mist", "Haze"} THEN 5 ELSE 10,
       IF w.visibility < 1000 THEN 6 ELSE 10,
       IF w.humidity > 85 THEN 8 ELSE 10,
       IF w.temperature < 10 THEN 9 ELSE 10 >>

\* the clauses of the rules that trigger, in the order of the rules
C24_Clauses(w) ==
    LET m == C24_Tenths(w)
    IN  (IF m[1] # 10 THEN <<"Foggy conditions">> ELSE <<>>)
        \o (IF m[2] # 10 THEN <<"Low visibility">> ELSE <<>>)
        \o (IF m[3] # 10 THEN <<"High humidity">> ELSE <<>>)
        \o (IF m[4] # 10 THEN <<"Cold temperature">> ELSE <<>>)

\* C24: for a smoke detection with weather present, every pair that
\* adjust_confidence returns has the raw confidence times the product of the
\* multipliers of exactly the rules that trigger (fog x0.5, visibility < 1000
\* x0.6, humidity > 85 x0.8, temperature < 10 x0.9, strict comparisons), one
\* clause in the trace per triggered rule in that order, and the clear-weather
\* trace with the confidence unchanged when no rule triggers
C24_WeatherChain ==
    (/\ ac.status = "returned"
     /\ Lower(ac.detected_class) = str_smoke
     /\ ac.out.weather # None) =>
        LET w   == ac.out.weather
            m   == C24_Tenths(w)
            raw == ac.confidence \div 10^6         \* raw confidence, in hundredths
        IN  /\ raw * 10^6 = ac.confidence
            \* adjusted / 10^8 = (raw / 100) * (m1 / 10) * ... * (m4 / 10)
            /\ ac.out.confidence = raw * m[1] * m[2] * m[3] * m[4] * 100
            /\ ac.out.reason.adjustments = C24_Clauses(w)
            /\ ac.out.reason.kind = IF m = <<10, 10, 10, 10>>
                                    THEN "Clear weather" ELSE "Weather context"
            /\ m = <<10, 10, 10, 10>> => ac.out.confidence = ac.confidence

\* mist at visibility 1000, humidity 85 and 10 degrees: the fog rule alone
C24_Witness ==
    /\ ac.status = "returned"
    /\ ac.detected_class = str_SMOKE
    /\ ac.confidence = Pct(90)
    /\ ac.out.weather = [condition |-> "Mist", temperature |-> 10, humidity |-> 85,
                         visibility |-> 1000]
    /\ ac.out.confidence = Pct(45)
    /\ ac.out.reason.adjustments = <<"Foggy conditions">>

\* C26: get_recommendation returns exactly one of three tiers: the no-alert
\* tier when the alert decision is false; otherwise the reduced-but-still-
\* concerning tier when adjusted confidence < 0.7 x original confidence;
\* otherwise the high-confidence tier
C26_Tiers ==
    gr.status = "returned" =>
        LET no_alert == { "Smoke detected but confidence reduced",
                          "Low confidence detection" }
            reduced  == "Confidence reduced by weather context but still concerning"
            high     == "High confidence detection"
        IN  /\ gr.out \in no_alert \cup {reduced, high}
            /\ (gr.out \in no_alert) <=> ~gr.should_alert
            /\ (gr.out = reduced) <=>
                  (gr.should_alert /\ 10 * gr.adjusted_conf < 7 * gr.original_conf)
            /\ (gr.out = high) <=>
                  (gr.should_alert /\ 10 * gr.adjusted_conf >= 7 * gr.original_conf)

\* an alert whose adjusted confidence is 0.7 x original exactly: the top tier
C26_Witness ==
    /\ gr.status = "returned"
    /\ gr.should_alert
    /\ gr.original_conf = Pct(90)
    /\ gr.adjusted_conf = Pct(63)
    /\ gr.out = "High confidence detection"

(***************************************************************************)
(* The flags of one detection, and the two alert decisions                 *)
(***************************************************************************)
\* the flags and the maximum as the detection result defines them
C25_Derived(predictions) ==
    [has_fire  |-> \E i \in DOMAIN predictions :
                       Lower(predictions[i].class) = str_fire,
     has_smoke |-> \E i \in DOMAIN predictions :
                       Lower(predictions[i].class) = str_smoke,
     max_confidence |->
         IF predictions = <<>> THEN 0
         ELSE CHOOSE c \in { predictions[i].confidence : i \in DOMAIN predictions } :
                  \A i \in DOMAIN predictions : predictions[i].confidence <= c]

C25_Flags(r) == [has_fire |-> r.has_fire, has_smoke |-> r.has_smoke,
                 max_confidence |-> r.max_confidence]

\* the response of the route and the result of the batch detector for the
\* same inference answer carry the derived flags
C25_RouteAndBatch ==
    RdReturnedResult =>
        /\ C25_Flags(rd.basic_result) = C25_Derived(rd.inference.predictions)
        /\ C25_Flags(process_single_image([kind |-> "base64"], 0,
                         [kind |-> "http", code |-> 200,
                          predictions |-> rd.inference.predictions]))
              = C25_Derived(rd.inference.predictions)

\* C25: has_fire and has_smoke are derived by a case-insensitive match of
\* each prediction's class and max_confidence is the maximum confidence or
\* 0; the derivation is the same in the batch detector, in the route and in
\* the record handed to persistence, so the flags of one detection agree
C25_SameFlagsEverywhere ==
    /\ C25_RouteAndBatch
    /\ (RdReturnedResult /\ rd.logged.kind = "stored") =>
          C25_Flags(rd.logged.row) = C25_Flags(rd.basic_result)

\* the alert_settings row that holds the settings of a trigger_alerts call
C27_Row ==
    [email_enabled   |-> ta.email_settings.enabled,
     email_address   |-> ta.email_settings.email_address,
     sms_enabled     |-> ta.sms_settings.enabled,
     phone_number    |-> ta.sms_settings.phone_number,
     min_confidence  |-> ta.email_settings.min_confidence,
     alert_for_fire  |-> ta.email_settings.alert_for_fire,
     alert_for_smoke |-> ta.email_settings.alert_for_smoke]

C27_RouteSends(channel) ==
    \E k \in DOMAIN RouteEmailSmsSends(ta.detection_data, C27_Row) :
        RouteEmailSmsSends(ta.detection_data, C27_Row)[k].channel = channel

\* C27: for every detection result and every email/SMS configuration,
\* trigger_alerts and the alert logic of the route decide the same way
\* whether an email and an SMS are sent
C27_SameDecision ==
    (/\ TaReturned
     /\ ta.email_settings # None
     /\ ta.sms_settings # None
     /\ ta.email_settings.min_confidence = ta.sms_settings.min_confidence) =>
        /\ (ta.out.emails # <<>>) <=> C27_RouteSends("email")
        /\ (ta.out.sms # <<>>) <=> C27_RouteSends("sms")

(***************************************************************************)
(* What the alert decision of smart_detection depends on                   *)
(***************************************************************************)
\* smart_detection in the same context on the result cut to its first
\* prediction
C28_FirstAlone ==
    smart_detection(basic_result(<<SdFirst>>), sd.location, sd.hour, sd.weather,
                    ac.out).value

\* C28: the alert decision and the adjusted confidence of smart_detection
\* depend only on the first prediction of the result and on the context: they
\* are those of the result cut to its first prediction, so two results that
\* differ only in their second and later predictions get the same decision
C28_FirstPredictionOnly ==
    SdEnhanced =>
        /\ sd.out.value.alert = C28_FirstAlone.alert
        /\ SdAdjusted = C28_FirstAlone.predictions[1].adjusted_confidence
        /\ sd.out.value.predictions[1].class = SdFirst.class
        /\ sd.out.value.predictions[1].original_confidence = SdFirst.confidence

\* a weak smoke box first and a fire box at 0.9 second: no alert
C28_Witness ==
    /\ SdEnhanced
    /\ Len(sd.image_result.predictions) = 2
    /\ SdFirst.class = str_smoke /\ SdFirst.confidence = Pct(30)
    /\ sd.image_result.predictions[2].class = str_Fire
    /\ sd.image_result.predictions[2].confidence = Pct(90)
    /\ sd.image_result.has_fire
    /\ ~sd.out.value.alert

(***************************************************************************)
(* The summary of a batch                                                  *)
(***************************************************************************)
\* the successful results of the batch, in their order
C29_Successes == SelectSeq(results, LAMBDA r : r.success)

\* a rate num/den lies in [0, 100]
C29_InRange(rate) == rate.den > 0 /\ 0 <= rate.num /\ rate.num <= 100 * rate.den

\* C29: for every result sequence process_batch_images returns, the summary
\* has total_images = successful + failed, fire_detected_count <= successful,
\* smoke_detected_count <= successful, the three rates in [0, 100], and the
\* fire, smoke and total_detections counts of the successful results alone
C29_SummaryInvariants ==
    BatchReturned =>
        LET summary == analyze_batch_results(results)
            alone   == analyze_batch_results(C29_Successes)
        IN  /\ summary.total_images = Len(images)
            /\ summary.total_images = summary.successful + summary.failed
            /\ summary.successful >= 0 /\ summary.failed >= 0
            /\ summary.fire_detected_count <= summary.successful
            /\ summary.smoke_detected_count <= summary.successful
            /\ C29_InRange(summary.success_rate)
            /\ C29_InRange(summary.fire_rate)
            /\ C29_InRange(summary.smoke_rate)
            /\ summary.fire_detected_count = alone.fire_detected_count
            /\ summary.smoke_detected_count = alone.smoke_detected_count
            /\ summary.total_detections = alone.total_detections
            /\ (vpc = "done" /\ "summary" \in DOMAIN vresult) => vresult.summary = summary

\* a batch of three: a fire and smoke frame, a failed item and an empty frame
C29_Witness ==
    /\ BatchReturned
    /\ Len(results) = 3
    /\ results[1].success /\ results[1].has_fire /\ results[1].count = 2
    /\ ~results[2].success
    /\ results[3].success /\ results[3].count = 0
    /\ analyze_batch_results(results).fire_rate = [num |-> 100, den |-> 2]
    /\ analyze_batch_results(results).success_rate = [num |-> 200, den |-> 3]
    /\ analyze_batch_results(results).total_detections = 2

====
